---- MODULE Spec2Model ----
(***************************************************************************)
(* SQL Optimizer AI: the Streamlit application in its two revisions, the   *)
(* modular one (auth.py, database.py, components/, views/, pages/,         *)
(* utils.py, on the hosted Postgres store) and the monolithic one          *)
(* (main.py, on SQLite).  The variable rev says which revision runs.       *)
(***************************************************************************)
EXTENDS Integers, Sequences, FiniteSets, TLC

(* ----------------------------------------------------------------------- *)
(* Text.  A Python str is a sequence of one-character strings.             *)
(* ----------------------------------------------------------------------- *)

LowerLetters ==
  <<"a","b","c","d","e","f","g","h","i","j","k","l","m",
    "n","o","p","q","r","s","t","u","v","w","x","y","z">>

UpperLetters ==
  <<"A","B","C","D","E","F","G","H","I","J","K","L","M",
    "N","O","P","Q","R","S","T","U","V","W","X","Y","Z">>

Digits == {"0","1","2","3","4","5","6","7","8","9"}

LowerSet == {LowerLetters[i] : i \in 1..26}

UpperSet == {UpperLetters[i] : i \in 1..26}

\* the upper-case letter of every lower-case letter
UpperOf ==
  [c \in LowerSet |-> UpperLetters[CHOOSE i \in 1..26 : LowerLetters[i] = c]]

\* str.upper() on one character
ToUpper(c) == IF c \in LowerSet THEN UpperOf[c] ELSE c

\* two characters are equal under re.IGNORECASE
SameFold(c, d) == c = d \/ ToUpper(c) = ToUpper(d)

\* the class \w of the re module
IsWordChar(c) == c \in LowerSet \cup UpperSet \cup Digits \cup {"_"}

\* the class [a-zA-Z0-9_]
IsAlnumUnderscore(c) == c \in LowerSet \cup UpperSet \cup Digits \cup {"_"}

\* the characters str.strip() removes
IsSpace(c) == c \in {" ", "\t", "\n", "\r"}

\* str.strip()
RECURSIVE LStrip(_)
LStrip(s) == IF s # <<>> /\ IsSpace(Head(s)) THEN LStrip(Tail(s)) ELSE s

RECURSIVE RStrip(_)
RStrip(s) ==
  IF s # <<>> /\ IsSpace(s[Len(s)]) THEN RStrip(SubSeq(s, 1, Len(s) - 1)) ELSE s

strip(s) == RStrip(LStrip(s))

\* utils.py: the keyword list of format_sql, in list order
keywords_utils ==
  <<
    <<"S","E","L","E","C","T">>,
    <<"F","R","O","M">>,
    <<"W","H","E","R","E">>,
    <<"J","O","I","N">>,
    <<"L","E","F","T"," ","J","O","I","N">>,
    <<"R","I","G","H","T"," ","J","O","I","N">>,
    <<"I","N","N","E","R"," ","J","O","I","N">>,
    <<"O","U","T","E","R"," ","J","O","I","N">>,
    <<"F","U","L","L"," ","J","O","I","N">>,
    <<"C","R","O","S","S"," ","J","O","I","N">>,
    <<"O","N">>,
    <<"A","N","D">>,
    <<"O","R">>,
    <<"N","O","T">>,
    <<"I","N">>,
    <<"E","X","I","S","T","S">>,
    <<"B","E","T","W","E","E","N">>,
    <<"L","I","K","E">>,
    <<"I","S">>,
    <<"N","U","L","L">>,
    <<"G","R","O","U","P"," ","B","Y">>,
    <<"H","A","V","I","N","G">>,
    <<"O","R","D","E","R"," ","B","Y">>,
    <<"A","S","C">>,
    <<"D","E","S","C">>,
    <<"L","I","M","I","T">>,
    <<"O","F","F","S","E","T">>,
    <<"U","N","I","O","N">>,
    <<"U","N","I","O","N"," ","A","L","L">>,
    <<"I","N","T","E","R","S","E","C","T">>,
    <<"E","X","C","E","P","T">>,
    <<"W","I","T","H">>,
    <<"A","S">>,
    <<"C","A","S","E">>,
    <<"W","H","E","N">>,
    <<"T","H","E","N">>,
    <<"E","L","S","E">>,
    <<"E","N","D">>,
    <<"I","F">>,
    <<"D","I","S","T","I","N","C","T">>,
    <<"A","L","L">>,
    <<"C","O","U","N","T">>,
    <<"S","U","M">>,
    <<"A","V","G">>,
    <<"M","I","N">>,
    <<"M","A","X">>,
    <<"S","U","B","S","T","R","I","N","G">>,
    <<"C","O","N","C","A","T">>,
    <<"C","O","A","L","E","S","C","E">>,
    <<"C","A","S","T">>,
    <<"C","O","N","V","E","R","T">>,
    <<"I","N","S","E","R","T">>,
    <<"U","P","D","A","T","E">>,
    <<"D","E","L","E","T","E">>,
    <<"C","R","E","A","T","E">>,
    <<"D","R","O","P">>,
    <<"A","L","T","E","R">>,
    <<"T","A","B","L","E">>,
    <<"I","N","D","E","X">>,
    <<"V","I","E","W">>
  >>

\* main.py: the keyword list of format_sql, in list order
keywords_main ==
  <<
    <<"S","E","L","E","C","T">>,
    <<"F","R","O","M">>,
    <<"W","H","E","R","E">>,
    <<"J","O","I","N">>,
    <<"L","E","F","T"," ","J","O","I","N">>,
    <<"R","I","G","H","T"," ","J","O","I","N">>,
    <<"I","N","N","E","R"," ","J","O","I","N">>,
    <<"O","U","T","E","R"," ","J","O","I","N">>,
    <<"F","U","L","L"," ","J","O","I","N">>,
    <<"C","R","O","S","S"," ","J","O","I","N">>,
    <<"O","N">>,
    <<"A","N","D">>,
    <<"O","R">>,
    <<"N","O","T">>,
    <<"I","N">>,
    <<"E","X","I","S","T","S">>,
    <<"B","E","T","W","E","E","N">>,
    <<"L","I","K","E">>,
    <<"I","S">>,
    <<"N","U","L","L">>,
    <<"G","R","O","U","P"," ","B","Y">>,
    <<"H","A","V","I","N","G">>,
    <<"O","R","D","E","R"," ","B","Y">>,
    <<"A","S","C">>,
    <<"D","E","S","C">>,
    <<"L","I","M","I","T">>,
    <<"O","F","F","S","E","T">>,
    <<"U","N","I","O","N">>,
    <<"U","N","I","O","N"," ","A","L","L">>,
    <<"I","N","T","E","R","S","E","C","T">>,
    <<"E","X","C","E","P","T">>,
    <<"W","I","T","H">>,
    <<"A","S">>,
    <<"C","A","S","E">>,
    <<"W","H","E","N">>,
    <<"T","H","E","N">>,
    <<"E","L","S","E">>,
    <<"E","N","D">>,
    <<"I","F">>,
    <<"D","I","S","T","I","N","C","T">>,
    <<"A","L","L">>,
    <<"C","O","U","N","T">>,
    <<"S","U","M">>,
    <<"A","V","G">>,
    <<"M","I","N">>,
    <<"M","A","X">>,
    <<"S","U","B","S","T","R","I","N","G">>,
    <<"C","O","N","C","A","T">>,
    <<"C","O","A","L","E","S","C","E">>,
    <<"C","A","S","T">>,
    <<"C","O","N","V","E","R","T">>,
    <<"I","N","S","E","R","T">>,
    <<"U","P","D","A","T","E">>,
    <<"D","E","L","E","T","E">>,
    <<"C","R","E","A","T","E">>,
    <<"D","R","O","P">>,
    <<"A","L","T","E","R">>,
    <<"T","A","B","L","E">>,
    <<"I","N","D","E","X">>,
    <<"V","I","E","W">>,
    <<"P","R","O","C","E","D","U","R","E">>,
    <<"F","U","N","C","T","I","O","N">>,
    <<"T","R","I","G","G","E","R">>,
    <<"D","A","T","A","B","A","S","E">>,
    <<"S","C","H","E","M","A">>,
    <<"P","R","I","M","A","R","Y"," ","K","E","Y">>,
    <<"F","O","R","E","I","G","N"," ","K","E","Y">>,
    <<"R","E","F","E","R","E","N","C","E","S">>,
    <<"C","O","N","S","T","R","A","I","N","T">>,
    <<"D","E","F","A","U","L","T">>,
    <<"A","U","T","O","_","I","N","C","R","E","M","E","N","T">>,
    <<"U","N","I","Q","U","E">>,
    <<"C","H","E","C","K">>,
    <<"I","N","N","E","R">>,
    <<"L","E","F","T">>,
    <<"R","I","G","H","T">>,
    <<"F","U","L","L">>,
    <<"O","U","T","E","R">>,
    <<"C","R","O","S","S">>
  >>
(* ----------------------------------------------------------------------- *)
(* format_sql: re.sub passes.  Every pass scans left to right and replaces *)
(* the leftmost non-overlapping matches, as re.sub does.                   *)
(* ----------------------------------------------------------------------- *)

\* position i of s holds a \w character
WordAt(s, i) == i \in 1..Len(s) /\ IsWordChar(s[i])

\* \b holds between positions i-1 and i of s
WordBoundary(s, i) == WordAt(s, i - 1) # WordAt(s, i)

\* the pattern without its \b: the keyword matches inside longer words
KeywordMatchesAt_unbounded(kw, s, i) ==
  /\ i + Len(kw) - 1 <= Len(s)
  /\ \A j \in 1..Len(kw) : SameFold(s[i + j - 1], kw[j])

\* the pattern of a formatter that knows string literals: no match at a
\* position that an odd number of quotes precedes
KeywordMatchesAt_lexed(kw, s, i) ==
  /\ i + Len(kw) - 1 <= Len(s)
  /\ \A j \in 1..Len(kw) : SameFold(s[i + j - 1], kw[j])
  /\ WordBoundary(s, i)
  /\ WordBoundary(s, i + Len(kw))
  /\ Cardinality({ k \in 1..(i - 1) : s[k] = "'" }) % 2 = 0

\* the pattern \b + re.escape(keyword.lower()) + \b, re.IGNORECASE, matches at i
KeywordMatchesAt(kw, s, i) ==
  /\ i + Len(kw) - 1 <= Len(s)
  /\ \A j \in 1..Len(kw) : SameFold(s[i + j - 1], kw[j])
  /\ WordBoundary(s, i)
  /\ WordBoundary(s, i + Len(kw))

\* re.sub(pattern, keyword, result, flags=re.IGNORECASE) from position i on
RECURSIVE SubKeywordFrom(_, _, _)
SubKeywordFrom(kw, s, i) ==
  IF i > Len(s) THEN <<>>
  ELSE IF KeywordMatchesAt(kw, s, i)
       THEN kw \o SubKeywordFrom(kw, s, i + Len(kw))
       ELSE <<s[i]>> \o SubKeywordFrom(kw, s, i + 1)

\* re.sub(pattern, keyword, result, flags=re.IGNORECASE); a text without a
\* match is returned as it is
SubKeyword(kw, s) ==
  IF \E i \in 1..(Len(s) - Len(kw) + 1) : KeywordMatchesAt(kw, s, i)
  THEN SubKeywordFrom(kw, s, 1)
  ELSE s

\* the loop "for keyword in keywords" over the keywords lo..hi of the list, in
\* list order; the range is halved, and the intermediate result is computed
\* before the second half starts, to keep the evaluation shallow
RECURSIVE CapitalizeKeywords(_, _, _, _)
CapitalizeKeywords(kws, s, lo, hi) ==
  IF lo > hi THEN s
  ELSE IF lo = hi THEN SubKeyword(kws[lo], s)
  ELSE LET mid == (lo + hi) \div 2
           result == CapitalizeKeywords(kws, s, lo, mid)
       IN IF Len(result) >= 0
          THEN CapitalizeKeywords(kws, result, mid + 1, hi)
          ELSE result

\* the last index of the run of characters of set cs that starts at i
\* (i - 1 when s[i] is not in cs)
RECURSIVE RunEnd(_, _, _)
RunEnd(s, i, cs) ==
  IF i <= Len(s) /\ s[i] \in cs THEN RunEnd(s, i + 1, cs) ELSE i - 1

\* re.sub(r'[ \t]+', ' ', result)
RECURSIVE CollapseBlanks(_, _)
CollapseBlanks(s, i) ==
  IF i > Len(s) THEN <<>>
  ELSE IF s[i] \in {" ", "\t"}
       THEN <<" ">> \o CollapseBlanks(s, RunEnd(s, i, {" ", "\t"}) + 1)
       ELSE <<s[i]>> \o CollapseBlanks(s, i + 1)

\* re.sub(r' +\n', '\n', result)
RECURSIVE DropSpacesBeforeNewline(_, _)
DropSpacesBeforeNewline(s, i) ==
  IF i > Len(s) THEN <<>>
  ELSE LET e == RunEnd(s, i, {" "})
       IN IF e >= i /\ e + 1 <= Len(s) /\ s[e + 1] = "\n"
          THEN <<"\n">> \o DropSpacesBeforeNewline(s, e + 2)
          ELSE <<s[i]>> \o DropSpacesBeforeNewline(s, i + 1)

\* re.sub(r'\n +', '\n', result)
RECURSIVE DropSpacesAfterNewline(_, _)
DropSpacesAfterNewline(s, i) ==
  IF i > Len(s) THEN <<>>
  ELSE IF s[i] = "\n" /\ RunEnd(s, i + 1, {" "}) >= i + 1
       THEN <<"\n">> \o DropSpacesAfterNewline(s, RunEnd(s, i + 1, {" "}) + 1)
       ELSE <<s[i]>> \o DropSpacesAfterNewline(s, i + 1)

\* re.sub of the two-character literal <<a, b>> by the text r
RECURSIVE SubPair(_, _, _, _, _)
SubPair(a, b, r, s, i) ==
  IF i > Len(s) THEN <<>>
  ELSE IF i + 1 <= Len(s) /\ s[i] = a /\ s[i + 1] = b
       THEN r \o SubPair(a, b, r, s, i + 2)
       ELSE <<s[i]>> \o SubPair(a, b, r, s, i + 1)

\* re.sub(r',([a-zA-Z0-9_])', r', \1', result)
RECURSIVE SpaceAfterComma(_, _)
SpaceAfterComma(s, i) ==
  IF i > Len(s) THEN <<>>
  ELSE IF i + 1 <= Len(s) /\ s[i] = "," /\ IsAlnumUnderscore(s[i + 1])
       THEN <<",", " ", s[i + 1]>> \o SpaceAfterComma(s, i + 2)
       ELSE <<s[i]>> \o SpaceAfterComma(s, i + 1)

\* the clean-up with the comma passes ahead of the whitespace passes
CleanUpSpacing_commas_first(s) ==
  LET r1 == SubPair(" ", ",", <<",">>, s, 1)
      r2 == SpaceAfterComma(r1, 1)
      r3 == CollapseBlanks(r2, 1)
      r4 == DropSpacesBeforeNewline(r3, 1)
      r5 == DropSpacesAfterNewline(r4, 1)
      r6 == SubPair("(", " ", <<"(">>, r5, 1)
      r7 == SubPair(" ", ")", <<")">>, r6, 1)
  IN strip(r7)

\* "Clean up spacing": the seven passes after the keyword loop, then strip()
CleanUpSpacing(s) ==
  LET r1 == CollapseBlanks(s, 1)
      r2 == DropSpacesBeforeNewline(r1, 1)
      r3 == DropSpacesAfterNewline(r2, 1)
      r4 == SubPair(" ", ",", <<",">>, r3, 1)
      r5 == SpaceAfterComma(r4, 1)
      r6 == SubPair("(", " ", <<"(">>, r5, 1)
      r7 == SubPair(" ", ")", <<")">>, r6, 1)
  IN strip(r7)

\* format_sql(sql_query) with the keyword list kws
format_sql_with(kws, sql_query) ==
  IF strip(sql_query) = <<>> THEN sql_query
  ELSE CleanUpSpacing(CapitalizeKeywords(kws, sql_query, 1, Len(kws)))

\* utils.format_sql
format_sql_utils(sql_query) == format_sql_with(keywords_utils, sql_query)

\* main.format_sql
format_sql_main(sql_query) == format_sql_with(keywords_main, sql_query)

(* ----------------------------------------------------------------------- *)
(* Bounds and input sets.                                                  *)
(* ----------------------------------------------------------------------- *)

\* the browser sessions
Sessions == {1, 2}

\* the salts bcrypt.gensalt() returns
Salts == {1, 2}

\* the clock stops here (hours)
MaxClock == 48

\* the amounts of time that pass between two script runs (hours)
TickSteps == {12, 24}

\* the rows query_logs may hold before the last analysis starts
MaxLogs == 2

\* the same, where the quota is exercised
MaxQuotaLogs == 5

\* the pieces a typed SQL text is made of
MaxPieces == 3

\* the analyses that run where the history pages are exercised
MaxHistory == 1

\* the analyses that run where the prompt is exercised
MaxPrompts == 1

\* the clock stops here where the analytics cache is exercised (seconds)
MaxSeconds == 62

\* the analyses logged where users are managed
MaxStoreLogs == 1

\* the rows query_logs may hold before the last call of a view starts
MaxViewLogs == 6

\* the steps of an execution plan, and the depth up to which it is counted
MaxSteps == 3

MaxDepth == 4

\* the amounts of time that pass between two loads of the dashboard (seconds)
SecondSteps == {10, 21}

\* the ids query_history can give out within these bounds
HistoryIds == 1..(MaxLogs + MaxQuotaLogs)

None == "None"

Emails == {"root@sq", "ann@sq", "bob@sq", "cy@sq"}

Passwords == {"pw1", "pw2"}

\* the name typed in the register form
Names == {"New"}

Tasks == {"Explain", "Optimize", "Detect Issues", "Test"}

\* st.secrets["ADMIN_EMAILS"]
ADMIN_EMAILS == {"root@sq"}

\* an hour, in seconds: the unit of the clock
Hour == 3600

\* timedelta(hours=24)
ResetWindow == 24 * Hour

\* timedelta(seconds=30): the age up to which the cached analytics are served
CacheSeconds == 30

\* the daily limit of a non-admin session
DailyLimit == 5

(* ----------------------------------------------------------------------- *)
(* State.                                                                  *)
(* ----------------------------------------------------------------------- *)

VARIABLES
  rev,            \* the revision that runs: "modular" or "monolith"
  clock,          \* datetime.now(), in seconds
  users,          \* table users: a set of rows
  query_logs,     \* table query_logs: the rows in insertion order
  query_history,  \* table query_history: a set of rows
  history_seq,    \* the last id query_history has given out
  session_state,  \* st.session_state of every browser session
  run,            \* where the script run of every session stands
  ui,             \* what the last script run of every session rendered
  fav_trail,      \* per history id: is_favorite before and after the last
                  \* (at most two) toggle_favorite calls on the row
  window_success, \* the analyses of every session that succeeded for a
                  \* non-admin user since the usage tracker last reset
  last            \* the handler that ran last, with its arguments

vars ==
  <<rev, clock, users, query_logs, query_history, history_seq,
    session_state, run, ui, fav_trail, window_success, last>>

Revisions == {"modular", "monolith"}

(* ----------------------------------------------------------------------- *)
(* bcrypt.                                                                 *)
(* ----------------------------------------------------------------------- *)

\* bcrypt.hashpw(password, salt): the salt in clear with the salted digest
hashpw(password, salt) == [salt |-> salt, digest |-> <<salt, password>>]

\* bcrypt.checkpw(password, hashed): hash again with the salt of hashed
checkpw(password, hashed) == hashpw(password, hashed.salt) = hashed

\* a verify_password that accepts every password
verify_password_any(stored_password, provided_password) ==
  stored_password.salt = stored_password.salt

verify_password(stored_password, provided_password) ==
  checkpw(provided_password, stored_password)

(* ----------------------------------------------------------------------- *)
(* Table users.                                                            *)
(* ----------------------------------------------------------------------- *)

\* a users table without the primary key: every insert adds its row
InsertUser_no_key(tbl, row) == [ok |-> TRUE, tbl |-> tbl \cup {row}]

\* INSERT INTO users: email is the primary key, a second row for an email
\* is refused (ok = FALSE) and the table stays as it is
InsertUser(tbl, row) ==
  IF \E r \in tbl : r.email = row.email
  THEN [ok |-> FALSE, tbl |-> tbl]
  ELSE [ok |-> TRUE, tbl |-> tbl \cup {row}]

\* the row add_user inserts
NewUserRow(email, name, password, is_admin, salt) ==
  [email |-> email, name |-> name,
   password |-> hashpw(password, salt), is_admin |-> is_admin]

add_user(tbl, email, name, password, is_admin, salt) ==
  InsertUser(tbl, NewUserRow(email, name, password, is_admin, salt))

\* the value get_user returns for "no row" (None), shaped like a row
NoUser ==
  [email |-> None, name |-> None, password |-> hashpw(None, 0),
   is_admin |-> FALSE]

\* SELECT * FROM users WHERE email = ?: the first row, or None
get_user(tbl, email) ==
  IF \E r \in tbl : r.email = email
  THEN CHOOSE r \in tbl : r.email = email
  ELSE NoUser

(* ----------------------------------------------------------------------- *)
(* Session state and the sidebar.                                          *)
(* ----------------------------------------------------------------------- *)

\* last_analytics_update and cached_analytics of a session that has none (None)
NoUpdate == -1

NoAnalytics ==
  [total_queries |-> -1, successful_queries |-> -1, success_rate |-> <<0, 1>>,
   total_users |-> -1, total_tokens |-> -1, computed_at |-> -1]

\* "Session state init", for a session whose first script run is at time now
NewSession(now) ==
  [logged_in |-> FALSE, user_email |-> None, is_admin |-> FALSE,
   current_page |-> "Home", query_count |-> 0,
   query_reset_time |-> now + ResetWindow, current_sql_query |-> <<>>,
   last_analytics_update |-> NoUpdate, cached_analytics |-> NoAnalytics]

\* a usage tracker that resets only after the reset timestamp, not at it
render_sidebar_after(ss, now) ==
  IF ~ss.is_admin /\ now > ss.query_reset_time
  THEN [ss EXCEPT !.query_count = 0, !.query_reset_time = now + ResetWindow]
  ELSE ss

\* a usage tracker that moves the reset timestamp on from its old value
render_sidebar_from_old(ss, now) ==
  IF ~ss.is_admin /\ now >= ss.query_reset_time
  THEN [ss EXCEPT !.query_count = 0, !.query_reset_time = @ + ResetWindow]
  ELSE ss

\* the usage tracker of the sidebar: the session state it leaves
render_sidebar(ss, now) ==
  IF ~ss.is_admin /\ now >= ss.query_reset_time
  THEN [ss EXCEPT !.query_count = 0, !.query_reset_time = now + ResetWindow]
  ELSE ss

\* the usage tracker resets the counter in this script run
SidebarResets(ss, now) == ~ss.is_admin /\ now >= ss.query_reset_time

\* window_success after the usage tracker ran on ss
SuccessAfterSidebar(n, ss, now) == IF SidebarResets(ss, now) THEN 0 ELSE n

\* the "Analyze Query" button is rendered disabled
AnalyzeDisabled(ss) == ~ss.is_admin /\ ss.query_count >= DailyLimit

\* the sidebar shows "Unlimited queries" instead of a count
NoUsage == -1

\* what a script run of a logged-in session renders, given the state ss the
\* sidebar left: the usage line of the sidebar and, on the Optimizer page,
\* the Analyze button
Rendered(ss, message) ==
  [message |-> message,
   usage |-> IF ss.is_admin THEN NoUsage ELSE ss.query_count,
   analyze_button |->
     IF ss.current_page # "Optimizer" THEN "absent"
     ELSE IF AnalyzeDisabled(ss) THEN "disabled" ELSE "enabled"]

\* what a script run of a logged-out session renders: the login page
RenderedLogin(message) ==
  [message |-> message, usage |-> NoUsage, analyze_button |-> "absent"]

Idle == [op |-> "idle", arg |-> <<>>]

Did(op, s, arg, ok) == [op |-> op, s |-> s, arg |-> arg, ok |-> ok]


\* tokens_used and error_message of a row that has none (NULL)
NoTokens == -1

NoError == ""

(* ----------------------------------------------------------------------- *)
(* The aggregates of the Analytics page and their cache.                   *)
(* ----------------------------------------------------------------------- *)

\* SUM(tokens_used) over the rows from k on that have a token count
RECURSIVE SumTokens(_, _)
SumTokens(logs, k) ==
  IF k > Len(logs) THEN 0
  ELSE (IF logs[k].tokens_used = NoTokens THEN 0 ELSE logs[k].tokens_used)
       + SumTokens(logs, k + 1)

\* get_analytics_data: the aggregates over query_logs and users.  The success
\* rate is the fraction <<numerator, denominator>>; computed_at is not a key
\* of the dictionary, it records when the aggregates were computed.
get_analytics_data(logs, tbl, now) ==
  LET total == Len(logs)
      successful == Cardinality({ k \in 1..total : logs[k].success })
  IN [total_queries |-> total,
      successful_queries |-> successful,
      success_rate |-> IF total > 0 THEN <<successful * 100, total>> ELSE <<0, 1>>,
      total_users |-> Cardinality(tbl),
      total_tokens |-> SumTokens(logs, 1),
      computed_at |-> now]

\* a cache that is served whatever its age
get_analytics_data_cached_forever(ss, force_refresh, logs, tbl, now) ==
  IF force_refresh \/ ss.last_analytics_update = NoUpdate
  THEN LET analytics == get_analytics_data(logs, tbl, now)
       IN [ss |-> [ss EXCEPT !.cached_analytics = analytics,
                             !.last_analytics_update = now],
           analytics |-> analytics, is_fresh |-> TRUE]
  ELSE [ss |-> ss, analytics |-> ss.cached_analytics, is_fresh |-> FALSE]

\* get_analytics_data_cached: the session state it leaves and what it returns
get_analytics_data_cached(ss, force_refresh, logs, tbl, now) ==
  IF \/ force_refresh
     \/ ss.last_analytics_update = NoUpdate
     \/ now - ss.last_analytics_update > CacheSeconds
  THEN LET analytics == get_analytics_data(logs, tbl, now)
       IN [ss |-> [ss EXCEPT !.cached_analytics = analytics,
                             !.last_analytics_update = now],
           analytics |-> analytics, is_fresh |-> TRUE]
  ELSE [ss |-> ss, analytics |-> ss.cached_analytics, is_fresh |-> FALSE]

(* ----------------------------------------------------------------------- *)
(* Initial state: the store as an earlier run of the application left it   *)
(* (two registered users, one of them made admin in the table), no session *)
(* logged in.                                                              *)
(* ----------------------------------------------------------------------- *)

SeedUsers ==
  { NewUserRow("ann@sq", "Ann", "pw1", FALSE, 1),
    NewUserRow("bob@sq", "Bob", "pw2", TRUE, 2) }

InitStore ==
  /\ users = SeedUsers
  /\ query_logs = <<>>
  /\ query_history = {}
  /\ history_seq = 0

InitSessions ==
  /\ clock = 0
  /\ session_state = [s \in Sessions |-> NewSession(0)]
  /\ run = [s \in Sessions |-> Idle]
  /\ ui = [s \in Sessions |-> RenderedLogin("")]
  /\ window_success = [s \in Sessions |-> 0]
  /\ fav_trail = [id \in HistoryIds |-> <<>>]
  /\ last = Did("init", 0, <<>>, TRUE)

Init ==
  /\ rev \in Revisions
  /\ InitStore
  /\ InitSessions

(* ----------------------------------------------------------------------- *)
(* Login, register, logout.                                                *)
(* ----------------------------------------------------------------------- *)

\* the is_admin a successful login puts in the session
LoginIsAdmin(user, email) ==
  IF rev = "modular"
  THEN user.is_admin \/ (email \in ADMIN_EMAILS)
  ELSE user.is_admin

\* the st.error of a login that found no row
MsgNoUser ==
  IF rev = "modular"
  THEN "User not found. Please check your email or register."
  ELSE "Invalid email or password"

\* the st.error of a login whose password did not verify
MsgBadPassword ==
  IF rev = "modular" THEN "Invalid password" ELSE "Invalid email or password"

\* a login that starts the usage counter of the user afresh
LoggedIn_fresh(ss, user, email) ==
  [ss EXCEPT !.logged_in = TRUE, !.user_email = email,
             !.is_admin = LoginIsAdmin(user, email), !.query_count = 0]

\* the session state a successful login leaves before st.rerun()
LoggedIn(ss, user, email) ==
  [ss EXCEPT !.logged_in = TRUE, !.user_email = email,
             !.is_admin = LoginIsAdmin(user, email)]

\* the condition under which login_form logs the session in
LoginOk(user, password) ==
  user # NoUser /\ verify_password(user.password, password)

\* login_form, the "Login" button; a success ends in st.rerun(), the script
\* run of the logged-in session
login_form(s, email, password) ==
  /\ ~session_state[s].logged_in
  /\ run[s] = Idle
  /\ LET user == get_user(users, email)
         ok == LoginOk(user, password)
         ss1 == LoggedIn(session_state[s], user, email)
         ss2 == render_sidebar(ss1, clock)
     IN /\ session_state' =
             [session_state EXCEPT ![s] = IF ok THEN ss2 ELSE @]
        /\ ui' = [ui EXCEPT ![s] =
             IF ok THEN Rendered(ss2, "")
             ELSE IF user = NoUser THEN RenderedLogin(MsgNoUser)
             ELSE RenderedLogin(MsgBadPassword)]
        /\ window_success' = [window_success EXCEPT ![s] =
             IF ok THEN SuccessAfterSidebar(@, ss1, clock) ELSE @]
        /\ last' = Did("login", s, <<email, password>>, ok)
  /\ UNCHANGED <<rev, clock, users, query_logs, query_history, history_seq, run,
                 fav_trail>>

\* register_form, the "Create Account" button, up to the existence check
register_form(s, new_email, new_name, new_password) ==
  /\ ~session_state[s].logged_in
  /\ run[s] = Idle
  /\ IF get_user(users, new_email) # NoUser
     THEN /\ ui' = [ui EXCEPT ![s] = RenderedLogin("Email already exists")]
          /\ last' = Did("register", s, <<new_email, new_name, new_password>>, FALSE)
          /\ run' = run
     ELSE /\ run' = [run EXCEPT ![s] =
               [op |-> "add_user", arg |-> <<new_email, new_name, new_password>>]]
          /\ last' = Did("register_check", s, <<new_email, new_name, new_password>>, TRUE)
          /\ ui' = ui
  /\ UNCHANGED <<rev, clock, users, query_logs, query_history, history_seq,
                 session_state, fav_trail, window_success>>

\* the is_admin register_form passes to add_user
RegisterIsAdmin(new_email) ==
  IF rev = "modular" THEN new_email \in ADMIN_EMAILS ELSE FALSE

\* register_form from add_user on: the insert, and the message
register_insert(s, salt) ==
  /\ run[s].op = "add_user"
  /\ LET new_email == run[s].arg[1]
         new_name == run[s].arg[2]
         new_password == run[s].arg[3]
         res == add_user(users, new_email, new_name, new_password,
                         RegisterIsAdmin(new_email), salt)
     IN /\ users' = res.tbl
        /\ ui' = [ui EXCEPT ![s] = RenderedLogin(
             IF res.ok THEN "Account created successfully! Please log in."
             ELSE IF rev = "modular" THEN "Error creating user"
             ELSE "sqlite3.IntegrityError")]
        /\ last' = Did("register", s, run[s].arg, res.ok)
  /\ run' = [run EXCEPT ![s] = Idle]
  /\ UNCHANGED <<rev, clock, query_logs, query_history, history_seq,
                 session_state, fav_trail, window_success>>

\* a logout that leaves the admin flag of the session as it was
LoggedOut_keeps_admin(ss) ==
  [ss EXCEPT !.logged_in = FALSE, !.user_email = None, !.current_page = "Home"]

\* the four assignments of the Logout branch
LoggedOut(ss) ==
  [ss EXCEPT !.logged_in = FALSE, !.user_email = None, !.is_admin = FALSE,
             !.current_page = "Home"]

\* the "Logout" button of the sidebar: the usage tracker above it runs first
Logout(s) ==
  /\ session_state[s].logged_in
  /\ run[s] = Idle
  /\ session_state' = [session_state EXCEPT ![s] =
       LoggedOut(render_sidebar(@, clock))]
  /\ ui' = [ui EXCEPT ![s] = RenderedLogin("")]
  /\ window_success' = [window_success EXCEPT ![s] =
       SuccessAfterSidebar(@, session_state[s], clock)]
  /\ last' = Did("logout", s, <<>>, TRUE)
  /\ UNCHANGED <<rev, clock, users, query_logs, query_history, history_seq, run,
                 fav_trail>>

\* the pages of the navigation
UserPages == {"Home", "Optimizer", "History"}

AdminPages == {"Analytics", "Users"}

\* a navigation button of the sidebar: it sets current_page and calls
\* st.rerun(), and the script run that follows renders the page; the
\* Analytics page gets its aggregates from the cache
Navigate(s, page) ==
  /\ session_state[s].logged_in
  /\ run[s] = Idle
  /\ page \in UserPages \/ (session_state[s].is_admin /\ page \in AdminPages)
  /\ LET ss1 == render_sidebar([session_state[s] EXCEPT !.current_page = page], clock)
         ss == IF page = "Analytics"
               THEN get_analytics_data_cached(ss1, FALSE, query_logs, users, clock).ss
               ELSE ss1
     IN /\ session_state' = [session_state EXCEPT ![s] = ss]
        /\ ui' = [ui EXCEPT ![s] = Rendered(ss, "")]
  /\ window_success' = [window_success EXCEPT ![s] =
       SuccessAfterSidebar(@, session_state[s], clock)]
  /\ last' = Did("navigate", s, <<page>>, TRUE)
  /\ UNCHANGED <<rev, clock, users, query_logs, query_history, history_seq, run,
                 fav_trail>>

\* time passes: d hours
Tick(d) ==
  /\ clock + d * Hour <= MaxClock * Hour
  /\ clock' = clock + d * Hour
  /\ last' = Did("tick", 0, <<d>>, TRUE)
  /\ UNCHANGED <<rev, users, query_logs, query_history, history_seq,
                 session_state, run, ui, fav_trail, window_success>>

(* ----------------------------------------------------------------------- *)
(* Tables query_logs and query_history.                                    *)
(* ----------------------------------------------------------------------- *)

\* log_query: INSERT INTO query_logs
log_query(logs, user_email, task_type, query_length, tokens_used, success, error_message) ==
  Append(logs,
    [user_email |-> user_email, task_type |-> task_type,
     query_length |-> query_length, tokens_used |-> tokens_used,
     success |-> success, error_message |-> error_message])

\* the row save_query_to_history inserts under the id the table gives it;
\* is_favorite takes the column default
NewHistoryRow(id, user_email, query_text, task_type, result_text) ==
  [id |-> id, user_email |-> user_email, query_text |-> query_text,
   task_type |-> task_type, result_text |-> result_text,
   is_favorite |-> FALSE, query_name |-> None]

\* save_query_to_history: INSERT INTO query_history
save_query_to_history(hist, seq, user_email, query_text, task_type, result_text) ==
  hist \cup {NewHistoryRow(seq + 1, user_email, query_text, task_type, result_text)}

(* ----------------------------------------------------------------------- *)
(* The Optimizer page: "Analyze Query".                                    *)
(* ----------------------------------------------------------------------- *)

\* A template is a sequence of pieces: a stretch of literal text without
\* braces is one piece, a brace is a piece, and so is the name of a field.
\* The instructions of a template are abridged to their first line and the
\* label that precedes the query.

\* constants.PROMPT_TEMPLATES[task], and the same texts as the f-strings of
\* utils.get_prompt_templates
PROMPT_TEMPLATES(task) ==
  CASE task = "Explain" ->
         <<"Provide a comprehensive analysis of this SQL query. SQL Query:", "{", "sql_query", "}">>
    [] task = "Detect Issues" ->
         <<"Analyze this query for issues. SQL Query:", "{", "sql_query", "}">>
    [] task = "Optimize" ->
         <<"Optimize this SQL query for better performance. Original SQL Query:", "{", "sql_query", "}">>
    [] task = "Test" ->
         <<"Create a test suite for this query. SQL Query to Test:", "{", "sql_query", "}">>

\* main.py: the f-strings of prompt_templates
prompt_templates(task) ==
  CASE task = "Explain" ->
         <<"You are a senior database architect. SQL Query:", "{", "sql_query", "}">>
    [] task = "Detect Issues" ->
         <<"You are a senior database performance consultant. SQL Query:", "{", "sql_query", "}">>
    [] task = "Optimize" ->
         <<"You are a database performance specialist. Original SQL Query:", "{", "sql_query", "}">>
    [] task = "Test" ->
         <<"You are a database testing specialist. SQL Query to Test:", "{", "sql_query", "}">>

\* a replacement field whose value is parsed for fields again: what is in
\* braces in the value is taken for a field, and lost
RECURSIVE StripFields(_)
StripFields(value) ==
  IF value = <<>> THEN <<>>
  ELSE IF Head(value) = "{"
       THEN LET close == { k \in 2..Len(value) : value[k] = "}" }
            IN IF close = {} THEN <<>>
               ELSE StripFields(SubSeq(value, 1 + CHOOSE k \in close : \A j \in close : k <= j,
                                       Len(value)))
       ELSE <<Head(value)>> \o StripFields(Tail(value))

RECURSIVE Interpolate_rescanned(_, _)
Interpolate_rescanned(template, sql_query) ==
  IF template = <<>> THEN <<>>
  ELSE IF Head(template) = "{" /\ Len(template) >= 3 /\ template[3] = "}"
       THEN StripFields(sql_query) \o Interpolate_rescanned(SubSeq(template, 4, Len(template)), sql_query)
       ELSE <<Head(template)>> \o Interpolate_rescanned(Tail(template), sql_query)

\* the template with its replacement fields filled in, as str.format and an
\* f-string do it: "{{" and "}}" stand for one brace, "{sql_query}" for the
\* value of sql_query, which is copied and not parsed
RECURSIVE Interpolate(_, _)
Interpolate(template, sql_query) ==
  IF template = <<>> THEN <<>>
  ELSE IF Len(template) >= 2 /\ Head(template) \in {"{", "}"} /\ template[2] = Head(template)
       THEN <<Head(template)>> \o Interpolate(SubSeq(template, 3, Len(template)), sql_query)
  ELSE IF Head(template) = "{" /\ Len(template) >= 3 /\ template[2] = "sql_query"
          /\ template[3] = "}"
       THEN sql_query \o Interpolate(SubSeq(template, 4, Len(template)), sql_query)
       ELSE <<Head(template)>> \o Interpolate(Tail(template), sql_query)

\* utils.get_prompt_templates: templates.get(task, templates["Explain"])
get_prompt_templates(sql_query, task) ==
  Interpolate(PROMPT_TEMPLATES(IF task \in Tasks THEN task ELSE "Explain"), sql_query)

\* main.py: prompt = prompt_templates[task]
main_prompt(sql_query, task) == Interpolate(prompt_templates(task), sql_query)

\* ui_pages.run_query_analysis: PROMPT_TEMPLATES[task].format(sql_query=sql_query)
format_prompt(sql_query, task) == Interpolate(PROMPT_TEMPLATES(task), sql_query)

\* the prompt the Optimizer page of the revision builds
Prompt(sql_query, task) ==
  IF rev = "modular" THEN get_prompt_templates(sql_query, task)
  ELSE main_prompt(sql_query, task)

\* no request was sent to the completion API
NoPrompt == <<>>

\* estimate_tokens(prompt)
estimate_tokens(prompt) == Len(prompt)

\* the steps of an analysis that can raise, and what str(e) is then
NoFault == [step |-> "none", msg |-> NoError]

\* a usage count that is taken only once the completion API has answered
count_query_on_success(ss, fault) ==
  IF ~ss.is_admin /\ fault.step \notin {"estimate_tokens", "api"}
  THEN [ss EXCEPT !.query_count = @ + 1] ELSE ss

\* "if not st.session_state.is_admin: st.session_state.query_count += 1",
\* ahead of the try block: the count is taken whatever the attempt does
count_query(ss, fault) ==
  IF ~ss.is_admin THEN [ss EXCEPT !.query_count = @ + 1] ELSE ss

ApiFaults ==
  { [step |-> "api", msg |-> m] : m \in {"Connection error.", "Rate limit reached"} }

Faults ==
  {NoFault} \cup ApiFaults \cup
  { [step |-> "estimate_tokens", msg |-> "Could not map model to a tokeniser"],
    [step |-> "display", msg |-> "DuplicateWidgetID"] }

\* the inserts of an analysis that can raise: the INSERT of log_query (every
\* one of the attempt) and the INSERT of save_query_to_history
StoreFaults ==
  { [step |-> "log", msg |-> "connection lost"],
    [step |-> "history", msg |-> "connection lost"] }

\* the text the completion API returns
Reply == "reply"

\* an analysis whose except branch logs nothing
LogsAfterAnalysis_unlogged(logs, user_email, sql_query, task, fault) ==
  IF fault.step \in {"estimate_tokens", "api"} THEN logs
  ELSE log_query(logs, user_email, task, Len(sql_query),
                 estimate_tokens(Prompt(sql_query, task)), TRUE, NoError)

\* the rows an analysis that passed the checks leaves in query_logs
LogsAfterAnalysis(logs, user_email, sql_query, task, fault) ==
  LET tokens == estimate_tokens(Prompt(sql_query, task))
      good == log_query(logs, user_email, task, Len(sql_query), tokens, TRUE, NoError)
  IN IF fault.step \in {"estimate_tokens", "api"}
     THEN log_query(logs, user_email, task, Len(sql_query), NoTokens, FALSE, fault.msg)
     ELSE IF fault.step = "display" \/ (fault.step = "history" /\ rev = "monolith")
     THEN log_query(good, user_email, task, Len(sql_query), NoTokens, FALSE, fault.msg)
     ELSE IF fault.step = "log" THEN logs
     ELSE good

\* the analysis reached save_query_to_history
HistorySaved(fault) ==
  \/ fault.step \in {"none", "display"}
  \/ fault.step = "log" /\ rev = "modular"

\* what the page shows after the analysis
AnalysisMessage(fault) ==
  IF fault.step = "none" THEN "Analysis complete!"
  ELSE IF fault.step = "history" /\ rev = "modular"
  THEN "Analysis complete but failed to save to history"
  ELSE IF fault.step = "log" /\ rev = "modular" THEN "Error logging query"
  ELSE "Error"

\* the "Analyze Query" button being clicked: the script run renders the
\* sidebar and the page, then analyze_query runs.  cap bounds the table.
\* The last argument recorded for the handler is the prompt it sent to the
\* completion API.
analyze_query(s, sql_query, task, fault, cap) ==
  /\ session_state[s].logged_in
  /\ run[s] = Idle
  /\ session_state[s].current_page = "Optimizer"
  /\ ui[s].analyze_button = "enabled"
  /\ LET ss0 == session_state[s]
         ss1 == render_sidebar(ss0, clock)
         blank == strip(sql_query) = <<>>
         limited == AnalyzeDisabled(ss1)
         runs == ~blank /\ ~limited
         ss1q == [ss1 EXCEPT !.current_sql_query = sql_query]
         ss2 == IF runs THEN count_query(ss1q, fault) ELSE ss1q
         ws1 == SuccessAfterSidebar(window_success[s], ss0, clock)
     IN /\ runs => (Len(query_logs) < cap /\ history_seq < cap)
        /\ session_state' = [session_state EXCEPT ![s] = ss2]
        /\ ui' = [ui EXCEPT ![s] = Rendered(ss1,
             IF blank THEN "Please enter a SQL query."
             ELSE IF limited
             THEN "Daily query limit reached. Limit resets in 24 hours."
             ELSE AnalysisMessage(fault))]
        /\ query_logs' =
             IF runs
             THEN LogsAfterAnalysis(query_logs, ss1.user_email, sql_query, task, fault)
             ELSE query_logs
        /\ query_history' =
             IF runs /\ HistorySaved(fault)
             THEN save_query_to_history(query_history, history_seq,
                                        ss1.user_email, sql_query, task, Reply)
             ELSE query_history
        /\ history_seq' =
             IF runs /\ HistorySaved(fault) THEN history_seq + 1 ELSE history_seq
        /\ fav_trail' =
             IF runs /\ HistorySaved(fault)
             THEN [fav_trail EXCEPT ![history_seq + 1] = <<FALSE>>]
             ELSE fav_trail
        /\ window_success' = [window_success EXCEPT ![s] =
             IF runs /\ ~ss1.is_admin /\ fault.step = "none" THEN ws1 + 1 ELSE ws1]
        /\ last' = Did("analyze", s,
             <<sql_query, task, fault,
               IF runs /\ fault.step # "estimate_tokens"
               THEN Prompt(sql_query, task) ELSE NoPrompt>>, runs)
  /\ UNCHANGED <<rev, clock, users, run>>


\* ui_pages.run_query_analysis, the "Run Analysis" button of render_ui: the
\* token estimate is made before the try block, and the quota counter is
\* not incremented
LogsAfterRun(logs, user_email, sql_query, task, fault) ==
  LET tokens == estimate_tokens(format_prompt(sql_query, task))
      good == log_query(logs, user_email, task, Len(sql_query), tokens, TRUE, NoError)
  IN IF fault.step = "estimate_tokens" THEN logs
     ELSE IF fault.step = "api"
     THEN log_query(logs, user_email, task, Len(sql_query), NoTokens, FALSE, fault.msg)
     ELSE IF fault.step = "display"
     THEN log_query(good, user_email, task, Len(sql_query), NoTokens, FALSE, fault.msg)
     ELSE good

run_query_analysis(s, sql_query, task, fault, cap) ==
  /\ rev = "modular"
  /\ session_state[s].logged_in
  /\ run[s] = Idle
  /\ session_state[s].current_page = "Optimizer"
  /\ ~AnalyzeDisabled(session_state[s])
  /\ LET ss == [session_state[s] EXCEPT !.current_sql_query = sql_query]
         blank == strip(sql_query) = <<>>
         runs == ~blank
         saved == runs /\ HistorySaved(fault)
     IN /\ runs => (Len(query_logs) < cap /\ history_seq < cap)
        /\ session_state' = [session_state EXCEPT ![s] = ss]
        /\ ui' = [ui EXCEPT ![s] = Rendered(ss,
             IF blank THEN "SQL query is empty."
             ELSE IF fault.step = "none" THEN "Analysis complete. Saved to history."
             ELSE "Failed")]
        /\ query_logs' =
             IF runs THEN LogsAfterRun(query_logs, ss.user_email, sql_query, task, fault)
             ELSE query_logs
        /\ query_history' =
             IF saved
             THEN save_query_to_history(query_history, history_seq,
                                        ss.user_email, sql_query, task, Reply)
             ELSE query_history
        /\ history_seq' = IF saved THEN history_seq + 1 ELSE history_seq
        /\ fav_trail' =
             IF saved THEN [fav_trail EXCEPT ![history_seq + 1] = <<FALSE>>]
             ELSE fav_trail
        /\ window_success' = [window_success EXCEPT ![s] =
             IF runs /\ ~ss.is_admin /\ fault.step = "none" THEN @ + 1 ELSE @]
        /\ last' = Did("run_analysis", s,
             <<sql_query, task, fault,
               IF runs /\ fault.step # "estimate_tokens"
               THEN format_prompt(sql_query, task) ELSE NoPrompt>>, runs)
  /\ UNCHANGED <<rev, clock, users, run>>
(* ----------------------------------------------------------------------- *)
(* The History page: favorites and delete.                                 *)
(* ----------------------------------------------------------------------- *)

\* SELECT is_favorite FROM query_history WHERE id = ?: the rows found
SelectFavorite(hist, query_id) == { r \in hist : r.id = query_id }

\* an UPDATE that negates the column in the statement itself
UpdateFavorite_in_place(hist, query_id, new_status) ==
  { IF r.id = query_id THEN [r EXCEPT !.is_favorite = ~r.is_favorite] ELSE r : r \in hist }

\* UPDATE query_history SET is_favorite = ? WHERE id = ?
UpdateFavorite(hist, query_id, new_status) ==
  { IF r.id = query_id THEN [r EXCEPT !.is_favorite = new_status] ELSE r : r \in hist }

\* a toggle_favorite that sets the favorite instead of toggling it
NewStatus_set(current_status) == current_status \/ TRUE

\* the new_status toggle_favorite computes from the status it read
NewStatus(current_status) == ~current_status

\* a DELETE without the user_email condition
delete_query_from_history_by_id(hist, query_id, user_email) ==
  { r \in hist : r.id # query_id }

\* DELETE FROM query_history WHERE id = ? AND user_email = ?
delete_query_from_history(hist, query_id, user_email) ==
  { r \in hist : ~(r.id = query_id /\ r.user_email = user_email) }

\* fav_trail after a toggle_favorite call wrote v: the last three values
TrailAfter(trail, v) ==
  IF Len(trail) < 3 THEN Append(trail, v) ELSE Append(Tail(trail), v)

\* a "Fav"/"Unfav" button: the script run up to the SELECT of
\* toggle_favorite.  A call that finds no row ends here, without a write.
toggle_favorite_read(s, query_id) ==
  /\ session_state[s].logged_in
  /\ run[s] = Idle
  /\ session_state[s].current_page = "History"
  /\ LET ss == render_sidebar(session_state[s], clock)
         data == SelectFavorite(query_history, query_id)
     IN /\ session_state' = [session_state EXCEPT ![s] = ss]
        /\ ui' = [ui EXCEPT ![s] = Rendered(ss, "")]
        /\ window_success' = [window_success EXCEPT ![s] =
             SuccessAfterSidebar(@, session_state[s], clock)]
        /\ IF data = {}
           THEN /\ run' = run
                /\ last' = Did("toggle", s, <<query_id>>, FALSE)
           ELSE /\ run' = [run EXCEPT ![s] =
                     [op |-> "toggle_write",
                      arg |-> <<query_id, (CHOOSE r \in data : TRUE).is_favorite>>]]
                /\ last' = Did("toggle_read", s, <<query_id>>, TRUE)
  /\ UNCHANGED <<rev, clock, users, query_logs, query_history, history_seq,
                 fav_trail>>

\* toggle_favorite from the UPDATE on, and the st.rerun() of the button
toggle_favorite_write(s) ==
  /\ run[s].op = "toggle_write"
  /\ LET query_id == run[s].arg[1]
         new_status == NewStatus(run[s].arg[2])
         ss == render_sidebar(session_state[s], clock)
     IN /\ query_history' = UpdateFavorite(query_history, query_id, new_status)
        /\ fav_trail' = [fav_trail EXCEPT ![query_id] = TrailAfter(@, new_status)]
        /\ session_state' = [session_state EXCEPT ![s] = ss]
        /\ ui' = [ui EXCEPT ![s] = Rendered(ss, "")]
        /\ window_success' = [window_success EXCEPT ![s] =
             SuccessAfterSidebar(@, session_state[s], clock)]
        /\ last' = Did("toggle", s, <<query_id>>, TRUE)
  /\ run' = [run EXCEPT ![s] = Idle]
  /\ UNCHANGED <<rev, clock, users, query_logs, history_seq>>

\* a delete request for the row query_id, made in the name of the user of
\* the session
delete_request(s, query_id) ==
  /\ session_state[s].logged_in
  /\ run[s] = Idle
  /\ session_state[s].current_page = "History"
  /\ LET ss == render_sidebar(session_state[s], clock)
         hist == delete_query_from_history(query_history, query_id, ss.user_email)
     IN /\ query_history' = hist
        /\ session_state' = [session_state EXCEPT ![s] = ss]
        /\ ui' = [ui EXCEPT ![s] = Rendered(ss,
             IF rev = "modular" \/ hist # query_history THEN "Query deleted!" ELSE "")]
        /\ window_success' = [window_success EXCEPT ![s] =
             SuccessAfterSidebar(@, session_state[s], clock)]
        /\ last' = Did("delete", s, <<query_id>>, hist # query_history)
  /\ UNCHANGED <<rev, clock, users, query_logs, history_seq, run, fav_trail>>

\* no toggle_favorite call on the row is between its SELECT and its UPDATE
NoToggleInFlight(query_id) ==
  \A t \in Sessions : run[t].op = "toggle_write" => run[t].arg[1] # query_id

(* ----------------------------------------------------------------------- *)
(* The Optimizer page: "Format SQL".                                       *)
(* ----------------------------------------------------------------------- *)

format_sql(sql_query) ==
  IF rev = "modular" THEN format_sql_utils(sql_query) ELSE format_sql_main(sql_query)

\* the "Format SQL" button: the text of the box is replaced by its formatted
\* form and the script reruns; a blank box gets a warning
format_click(s) ==
  /\ session_state[s].logged_in
  /\ run[s] = Idle
  /\ session_state[s].current_page = "Optimizer"
  /\ LET ss == render_sidebar(session_state[s], clock)
         sql_query == ss.current_sql_query
         blank == strip(sql_query) = <<>>
         ss2 == IF blank THEN ss
                ELSE [ss EXCEPT !.current_sql_query = format_sql(sql_query)]
     IN /\ session_state' = [session_state EXCEPT ![s] = ss2]
        /\ ui' = [ui EXCEPT ![s] = Rendered(ss,
             IF blank THEN "Please enter SQL code to format" ELSE "")]
        /\ window_success' = [window_success EXCEPT ![s] =
             SuccessAfterSidebar(@, session_state[s], clock)]
        /\ last' = Did("format", s, <<sql_query>>, ~blank)
  /\ UNCHANGED <<rev, clock, users, query_logs, query_history, history_seq, run,
                 fav_trail>>

\* the texts a user types: up to MaxPieces of these pieces in a row
Pieces ==
  { <<"g","r","o","u","p">>, <<"b","y">>,
    <<"A","s">>, <<"I","d">>, <<" ">>, <<"\t">>, <<"\n">>, <<",">>, <<"(">>, <<")">> }

RECURSIVE Flatten(_)
Flatten(ps) == IF ps = <<>> THEN <<>> ELSE Head(ps) \o Flatten(Tail(ps))

Texts == { Flatten(ps) : ps \in UNION { [1..n -> Pieces] : n \in 0..MaxPieces } }

\* a session of the seeded user ann@sq, on the Optimizer page, with a typed text
InitFormat ==
  /\ rev \in Revisions
  /\ InitStore
  /\ clock = 0
  /\ \E text \in Texts :
       session_state = [s \in Sessions |->
         IF s = 1
         THEN [NewSession(0) EXCEPT !.logged_in = TRUE, !.user_email = "ann@sq",
                 !.current_page = "Optimizer", !.current_sql_query = text]
         ELSE NewSession(0)]
  /\ run = [s \in Sessions |-> Idle]
  /\ ui = [s \in Sessions |->
       IF s = 1 THEN Rendered(session_state[s], "") ELSE RenderedLogin("")]
  /\ window_success = [s \in Sessions |-> 0]
  /\ fav_trail = [id \in HistoryIds |-> <<>>]
  /\ last = Did("init", 0, <<>>, TRUE)


\* texts with string literals and qualified column names
QuotedPieces ==
  { <<"c","o","u","n","t">>, <<"C","o","u","n","t">>, <<"g","r","o","u","p">>,
    <<"b","y">>, <<"'">>, <<" ">>, <<".">>, <<"x">> }

QuotedTexts ==
  { Flatten(ps) : ps \in UNION { [1..n -> QuotedPieces] : n \in 0..MaxPieces } }

\* the session of InitFormat, with one of the texts with string literals
InitQuoted ==
  /\ rev \in Revisions
  /\ InitStore
  /\ clock = 0
  /\ \E text \in QuotedTexts :
       session_state = [s \in Sessions |->
         IF s = 1
         THEN [NewSession(0) EXCEPT !.logged_in = TRUE, !.user_email = "ann@sq",
                 !.current_page = "Optimizer", !.current_sql_query = text]
         ELSE NewSession(0)]
  /\ run = [s \in Sessions |-> Idle]
  /\ ui = [s \in Sessions |->
       IF s = 1 THEN Rendered(session_state[s], "") ELSE RenderedLogin("")]
  /\ window_success = [s \in Sessions |-> 0]
  /\ fav_trail = [id \in HistoryIds |-> <<>>]
  /\ last = Did("init", 0, <<>>, TRUE)

(* ----------------------------------------------------------------------- *)
(* The Analytics page.                                                     *)
(* ----------------------------------------------------------------------- *)

\* a script run of the Analytics page of an admin: manual_refresh is the
\* "Refresh" button.  The handler records what the cache returned.
analytics_page(s, manual_refresh) ==
  /\ session_state[s].logged_in
  /\ run[s] = Idle
  /\ session_state[s].current_page = "Analytics"
  /\ session_state[s].is_admin
  /\ LET ss == render_sidebar(session_state[s], clock)
         r == get_analytics_data_cached(ss, manual_refresh, query_logs, users, clock)
     IN /\ session_state' = [session_state EXCEPT ![s] = r.ss]
        /\ ui' = [ui EXCEPT ![s] = Rendered(r.ss,
             IF r.is_fresh THEN "Just updated!" ELSE "Updated earlier")]
        /\ window_success' = [window_success EXCEPT ![s] =
             SuccessAfterSidebar(@, session_state[s], clock)]
        /\ last' = Did("analytics", s, <<manual_refresh, r.analytics, r.is_fresh>>, TRUE)
  /\ UNCHANGED <<rev, clock, users, query_logs, query_history, history_seq, run,
                 fav_trail>>

\* time passes: d seconds
TickSeconds(d) ==
  /\ clock + d <= MaxSeconds
  /\ clock' = clock + d
  /\ last' = Did("tick_seconds", 0, <<d>>, TRUE)
  /\ UNCHANGED <<rev, users, query_logs, query_history, history_seq,
                 session_state, run, ui, fav_trail, window_success>>

\* get_analytics_data when its first statement, the count of all rows, saw
\* total rows and the statements after it see logs
get_analytics_data_after(total, logs, tbl, now) ==
  LET successful == Cardinality({ k \in 1..Len(logs) : logs[k].success })
  IN [get_analytics_data(logs, tbl, now) EXCEPT
        !.total_queries = total,
        !.success_rate = IF total > 0 THEN <<successful * 100, total>> ELSE <<0, 1>>]

\* "Refresh" on the Analytics page, up to the first statement of
\* get_analytics_data: the count of all rows of query_logs
analytics_count_total(s) ==
  /\ session_state[s].logged_in
  /\ run[s] = Idle
  /\ session_state[s].current_page = "Analytics"
  /\ session_state[s].is_admin
  /\ run' = [run EXCEPT ![s] =
       [op |-> "get_analytics_data", arg |-> <<Len(query_logs)>>]]
  /\ last' = Did("analytics_count", s, <<Len(query_logs)>>, TRUE)
  /\ UNCHANGED <<rev, clock, users, query_logs, query_history, history_seq,
                 session_state, ui, window_success, fav_trail>>

\* "Refresh" from the count of the successful rows on
analytics_count_successful(s) ==
  /\ run[s].op = "get_analytics_data"
  /\ LET ss == render_sidebar(session_state[s], clock)
         analytics == get_analytics_data_after(run[s].arg[1], query_logs, users, clock)
         ss1 == [ss EXCEPT !.cached_analytics = analytics,
                           !.last_analytics_update = clock]
     IN /\ session_state' = [session_state EXCEPT ![s] = ss1]
        /\ ui' = [ui EXCEPT ![s] = Rendered(ss1, "Just updated!")]
        /\ last' = Did("analytics", s, <<TRUE, analytics, TRUE>>, TRUE)
  /\ window_success' = [window_success EXCEPT ![s] =
       SuccessAfterSidebar(@, session_state[s], clock)]
  /\ run' = [run EXCEPT ![s] = Idle]
  /\ UNCHANGED <<rev, clock, users, query_logs, query_history, history_seq,
                 fav_trail>>

\* the choices of the "Rate (s)" box
RefreshRates == {15, 30, 60}

\* a script run of the Analytics page with "Auto-refresh" on: the cache is
\* read without force_refresh, and the run ends in st.rerun() when the age of
\* the cache is at least the refresh rate
AutoRefreshRun(s, refresh_rate, op) ==
  /\ session_state[s].logged_in
  /\ session_state[s].current_page = "Analytics"
  /\ session_state[s].is_admin
  /\ LET ss == render_sidebar(session_state[s], clock)
         r == get_analytics_data_cached(ss, FALSE, query_logs, users, clock)
         age == clock - r.ss.last_analytics_update
         again == age >= refresh_rate
     IN /\ session_state' = [session_state EXCEPT ![s] = r.ss]
        /\ ui' = [ui EXCEPT ![s] = Rendered(r.ss,
             IF r.is_fresh THEN "Just updated!" ELSE "Updated earlier")]
        /\ run' = [run EXCEPT ![s] =
             IF again THEN [op |-> "rerun", arg |-> <<refresh_rate>>] ELSE Idle]
        /\ last' = Did(op, s, <<refresh_rate, r.is_fresh, again>>, TRUE)
  /\ window_success' = [window_success EXCEPT ![s] =
       SuccessAfterSidebar(@, session_state[s], clock)]
  /\ UNCHANGED <<rev, clock, users, query_logs, query_history, history_seq,
                 fav_trail>>

\* the Analytics page run by the user with Auto-refresh on
analytics_auto_refresh(s, refresh_rate) ==
  /\ run[s] = Idle
  /\ AutoRefreshRun(s, refresh_rate, "analytics_auto")

\* the run that st.rerun() of the auto-refresh block starts
analytics_rerun(s) ==
  /\ run[s].op = "rerun"
  /\ AutoRefreshRun(s, run[s].arg[1], "analytics_rerun")
(* ----------------------------------------------------------------------- *)
(* User management: the "Users" page of an admin session.                  *)
(* ----------------------------------------------------------------------- *)

\* get_regular_users: the rows "Grant Admin Access" offers
get_regular_users(tbl) == { r \in tbl : ~r.is_admin }

\* UPDATE users SET is_admin = TRUE WHERE email = ?
grant_admin_access(tbl, email) ==
  { IF r.email = email THEN [r EXCEPT !.is_admin = TRUE] ELSE r : r \in tbl }

\* a reset that writes the row anew, with the column defaults
PasswordReset_upsert(row, hashed_password) ==
  [row EXCEPT !.password = hashed_password, !.is_admin = FALSE]

\* update({"password": hashed_password}): the one column of the row
PasswordReset(row, hashed_password) == [row EXCEPT !.password = hashed_password]

\* reset_user_password: a fresh bcrypt hash for the rows of the email
reset_user_password(tbl, email, new_password, salt) ==
  { IF r.email = email THEN PasswordReset(r, hashpw(new_password, salt)) ELSE r : r \in tbl }

\* DELETE FROM users WHERE email = ?
delete_user(tbl, email) == { r \in tbl : r.email # email }

\* a delete that takes the log rows of the user with it
LogsAfterDeleteUser_cascade(logs, email) ==
  SelectSeq(logs, LAMBDA row : row.user_email # email)

\* query_logs after a user is deleted: no statement touches it, and the
\* reference to users(email) is declared without ON DELETE
LogsAfterDeleteUser(logs, email) == logs

\* a delete that takes the history rows of the user with it
HistoryAfterDeleteUser_cascade(hist, email) == { r \in hist : r.user_email # email }

\* query_history after a user is deleted: no statement touches it either
HistoryAfterDeleteUser(hist, email) == hist

\* the password field of the reset tool, typed or left empty
BlankPassword == ""

\* "Grant Admin Access" on the Users page
grant_admin_click(s, email) ==
  /\ session_state[s].logged_in
  /\ run[s] = Idle
  /\ session_state[s].current_page = "Users"
  /\ session_state[s].is_admin
  /\ \E r \in get_regular_users(users) : r.email = email
  /\ users' = grant_admin_access(users, email)
  /\ LET ss == render_sidebar(session_state[s], clock)
     IN /\ session_state' = [session_state EXCEPT ![s] = ss]
        /\ ui' = [ui EXCEPT ![s] = Rendered(ss, "is now an admin!")]
  /\ window_success' = [window_success EXCEPT ![s] =
       SuccessAfterSidebar(@, session_state[s], clock)]
  /\ last' = Did("grant", s, <<email>>, TRUE)
  /\ UNCHANGED <<rev, clock, query_logs, query_history, history_seq, run, fav_trail>>

\* "Reset Password" on the Users page (pages/users.py only)
reset_password_click(s, email, new_password, salt) ==
  /\ rev = "modular"
  /\ session_state[s].logged_in
  /\ run[s] = Idle
  /\ session_state[s].current_page = "Users"
  /\ session_state[s].is_admin
  /\ \E r \in users : r.email = email
  /\ users' = IF new_password # BlankPassword
              THEN reset_user_password(users, email, new_password, salt)
              ELSE users
  /\ LET ss == render_sidebar(session_state[s], clock)
     IN /\ session_state' = [session_state EXCEPT ![s] = ss]
        /\ ui' = [ui EXCEPT ![s] = Rendered(ss,
             IF new_password # BlankPassword THEN "Password reset"
             ELSE "Please enter a new password")]
  /\ window_success' = [window_success EXCEPT ![s] =
       SuccessAfterSidebar(@, session_state[s], clock)]
  /\ last' = Did("reset_password", s, <<email, new_password, salt>>,
                 new_password # BlankPassword)
  /\ UNCHANGED <<rev, clock, query_logs, query_history, history_seq, run, fav_trail>>

\* "Delete User" on the Users page: offered when there is more than one
\* user and the selected one is not the admin's own account
delete_user_click(s, email) ==
  /\ session_state[s].logged_in
  /\ run[s] = Idle
  /\ session_state[s].current_page = "Users"
  /\ session_state[s].is_admin
  /\ Cardinality(users) > 1
  /\ \E r \in users : r.email = email
  /\ email # session_state[s].user_email
  /\ users' = delete_user(users, email)
  /\ query_logs' = LogsAfterDeleteUser(query_logs, email)
  /\ LET ss == render_sidebar(session_state[s], clock)
     IN /\ session_state' = [session_state EXCEPT ![s] = ss]
        /\ ui' = [ui EXCEPT ![s] = Rendered(ss, "deleted!")]
  /\ window_success' = [window_success EXCEPT ![s] =
       SuccessAfterSidebar(@, session_state[s], clock)]
  /\ query_history' = HistoryAfterDeleteUser(query_history, email)
  /\ last' = Did("delete_user", s, <<email>>, TRUE)
  /\ UNCHANGED <<rev, clock, history_seq, run, fav_trail>>


\* "Delete User", the script run up to the DELETE: the SELECT of the users,
\* the two checks and the button; the statement that deletes comes after
delete_user_read(s, email) ==
  /\ session_state[s].logged_in
  /\ run[s] = Idle
  /\ session_state[s].current_page = "Users"
  /\ session_state[s].is_admin
  /\ Cardinality(users) > 1
  /\ \E r \in users : r.email = email
  /\ email # session_state[s].user_email
  /\ run' = [run EXCEPT ![s] = [op |-> "delete_user", arg |-> <<email>>]]
  /\ last' = Did("delete_user_read", s, <<email>>, TRUE)
  /\ UNCHANGED <<rev, clock, users, query_logs, query_history, history_seq,
                 session_state, ui, window_success, fav_trail>>

\* "Delete User" from the DELETE on: delete_user, st.success and st.rerun()
delete_user_write(s) ==
  /\ run[s].op = "delete_user"
  /\ LET email == run[s].arg[1]
         ss == render_sidebar(session_state[s], clock)
     IN /\ users' = delete_user(users, email)
        /\ query_logs' = LogsAfterDeleteUser(query_logs, email)
        /\ query_history' = HistoryAfterDeleteUser(query_history, email)
        /\ session_state' = [session_state EXCEPT ![s] = ss]
        /\ ui' = [ui EXCEPT ![s] = Rendered(ss, "deleted!")]
        /\ last' = Did("delete_user", s, <<email>>, TRUE)
  /\ window_success' = [window_success EXCEPT ![s] =
       SuccessAfterSidebar(@, session_state[s], clock)]
  /\ run' = [run EXCEPT ![s] = Idle]
  /\ UNCHANGED <<rev, clock, history_seq, fav_trail>>
(* ----------------------------------------------------------------------- *)
(* The History page: what a script run shows.                              *)
(* ----------------------------------------------------------------------- *)

\* get_user_query_history: SELECT ... WHERE user_email = ?
get_user_query_history(hist, user_email) == { r \in hist : r.user_email = user_email }

\* get_user_favorites: ... WHERE user_email = ? AND is_favorite
get_user_favorites(hist, user_email) ==
  { r \in hist : r.user_email = user_email /\ r.is_favorite }

\* the rows of "Recent entries (all users)": the five latest rows of the table
RecentOfAll == 5

\* the "Debug Info" expander of the History page of the SQLite script:
\* user_email and task_type of the latest rows of every user
DebugInfo(hist) ==
  IF rev = "monolith"
  THEN { [user_email |-> r.user_email, task_type |-> r.task_type] :
         r \in { h \in hist : Cardinality({ g \in hist : g.id > h.id }) < RecentOfAll } }
  ELSE {}

\* a script run of the History page: the rows of "Recent Queries" (each
\* with its Use, Fav and Delete buttons), those of "Favorites" (each with
\* Use, Unfav and Update Name), and the entries of "Debug Info"
history_page(s) ==
  /\ session_state[s].logged_in
  /\ run[s] = Idle
  /\ session_state[s].current_page = "History"
  /\ LET ss == render_sidebar(session_state[s], clock)
     IN /\ session_state' = [session_state EXCEPT ![s] = ss]
        /\ ui' = [ui EXCEPT ![s] = Rendered(ss, "")]
        /\ last' = Did("history", s,
             <<get_user_query_history(query_history, ss.user_email),
               get_user_favorites(query_history, ss.user_email),
               DebugInfo(query_history)>>, TRUE)
  /\ window_success' = [window_success EXCEPT ![s] =
       SuccessAfterSidebar(@, session_state[s], clock)]
  /\ UNCHANGED <<rev, clock, users, query_logs, query_history, history_seq, run,
                 fav_trail>>

(* ----------------------------------------------------------------------- *)
(* The views Comparison, Natural Language and Execution Plan.              *)
(* ----------------------------------------------------------------------- *)

\* a Compare Queries button without the limit check
comparison_limit_reached_never(ss) == FALSE

\* comparison_page: "not is_admin and query_count >= 5"
comparison_limit_reached(ss) == ~ss.is_admin /\ ss.query_count >= DailyLimit

\* the same check at the head of generate_sql_from_nl and of
\* generate_execution_plan
limit_reached(ss) == ~ss.is_admin /\ ss.query_count >= DailyLimit

\* the count of generate_sql_from_nl and generate_execution_plan: taken in
\* the try block, after the completion API has answered
count_after_reply(ss, fault) ==
  IF ~ss.is_admin /\ fault.step # "api"
  THEN [ss EXCEPT !.query_count = @ + 1] ELSE ss

\* the log row of a view: success, or failure with str(e)
ViewLog(logs, user_email, task_type, query_length, fault) ==
  IF fault.step = "api"
  THEN log_query(logs, user_email, task_type, query_length, NoTokens, FALSE, fault.msg)
  ELSE log_query(logs, user_email, task_type, query_length, NoTokens, TRUE, NoError)

\* a script run of a view that ends in the state ss, with message and log
ViewRun(s, ss, message, logs, op, fault, called) ==
  /\ session_state' = [session_state EXCEPT ![s] = ss]
  /\ ui' = [ui EXCEPT ![s] = Rendered(render_sidebar(session_state[s], clock), message)]
  /\ query_logs' = logs
  /\ window_success' = [window_success EXCEPT ![s] =
       SuccessAfterSidebar(@, session_state[s], clock)]
  /\ last' = Did(op, s, <<fault, called>>, called /\ fault.step = "none")
  /\ UNCHANGED <<rev, clock, users, query_history, history_seq, run, fav_trail>>

\* "Compare Queries": the limit check of comparison_page, then
\* run_comparison, which counts ahead of its try block
compare_queries(s, fault, cap) ==
  /\ rev = "modular"
  /\ session_state[s].logged_in
  /\ run[s] = Idle
  /\ LET ss1 == render_sidebar(session_state[s], clock)
     IN IF comparison_limit_reached(ss1)
        THEN ViewRun(s, ss1, "Daily query limit reached. Limit resets in 24 hours.",
                     query_logs, "compare", fault, FALSE)
        ELSE /\ Len(query_logs) < cap
             /\ ViewRun(s, count_query(ss1, fault),
                        IF fault.step = "api" THEN "Error" ELSE "",
                        ViewLog(query_logs, ss1.user_email, "Query Comparison", 2, fault),
                        "compare", fault, TRUE)

\* "Generate Optimized Version" of the Comparison page:
\* generate_optimized_query calls the completion API with no limit check,
\* no count and no log row
generate_optimized_query(s, fault) ==
  /\ rev = "modular"
  /\ session_state[s].logged_in
  /\ run[s] = Idle
  /\ ViewRun(s, render_sidebar(session_state[s], clock),
             IF fault.step = "api" THEN "Error generating optimized query" ELSE "",
             query_logs, "generate_optimized", fault, TRUE)

\* "Generate SQL" of the Natural Language page: generate_sql_from_nl
generate_sql_from_nl(s, fault, cap) ==
  /\ rev = "modular"
  /\ session_state[s].logged_in
  /\ run[s] = Idle
  /\ LET ss1 == render_sidebar(session_state[s], clock)
     IN IF limit_reached(ss1)
        THEN ViewRun(s, ss1, "Daily query limit reached. Limit resets in 24 hours.",
                     query_logs, "nl", fault, FALSE)
        ELSE /\ Len(query_logs) < cap
             /\ ViewRun(s, count_after_reply(ss1, fault),
                        IF fault.step = "api" THEN "Error generating SQL" ELSE "",
                        ViewLog(query_logs, ss1.user_email, "Natural Language", 1, fault),
                        "nl", fault, TRUE)

\* "Generate Execution Plan": generate_execution_plan
generate_execution_plan(s, fault, cap) ==
  /\ rev = "modular"
  /\ session_state[s].logged_in
  /\ run[s] = Idle
  /\ LET ss1 == render_sidebar(session_state[s], clock)
     IN IF limit_reached(ss1)
        THEN ViewRun(s, ss1, "Daily query limit reached. Limit resets in 24 hours.",
                     query_logs, "plan", fault, FALSE)
        ELSE /\ Len(query_logs) < cap
             /\ ViewRun(s, count_after_reply(ss1, fault),
                        IF fault.step = "api" THEN "Error generating execution plan" ELSE "",
                        ViewLog(query_logs, ss1.user_email, "Execution Plan", 1, fault),
                        "plan", fault, TRUE)

(* ----------------------------------------------------------------------- *)
(* The tree view of an execution plan.                                     *)
(* ----------------------------------------------------------------------- *)

\* the plans: the k-th step has id k, and plan[k] is its parent_id; 0 is a
\* parent_id that is absent, None or 0, and Len(plan) + 1 an id of no step
Plans ==
  UNION { [1..n -> 0..(n + 1)] : n \in 1..MaxSteps }

\* next((s for s in all_steps if s['id'] == parent_id), None)
NoStep == 0

StepWithId(all_steps, parent_id) ==
  IF parent_id \in 1..Len(all_steps) THEN parent_id ELSE NoStep

\* depth += 1; the model stops counting at MaxDepth
DepthPlusOne(depth) == IF depth < MaxDepth THEN depth + 1 ELSE MaxDepth

\* the iterations of the loop of get_depth are told apart by their parity
NextIteration(turn) == 1 - turn

\* display_tree_view reaches get_depth(step, steps): depth = 0, current = step
display_tree_view(s, all_steps, step) ==
  /\ rev = "modular"
  /\ session_state[s].logged_in
  /\ run[s] = Idle
  /\ step \in 1..Len(all_steps)
  /\ run' = [run EXCEPT ![s] = [op |-> "get_depth", arg |-> <<all_steps, step, 0, 0>>]]
  /\ last' = Did("display_tree_view", s, <<all_steps, step>>, TRUE)
  /\ UNCHANGED <<clock, users, query_logs, query_history, history_seq,
                 session_state, ui, window_success, fav_trail, rev>>

\* one evaluation of the while condition of get_depth, with the loop body
\* or the return that follows it
get_depth(s) ==
  /\ run[s].op = "get_depth"
  /\ LET all_steps == run[s].arg[1]
         current == run[s].arg[2]
         depth == run[s].arg[3]
         parent_id == all_steps[current]
         found == StepWithId(all_steps, parent_id)
     IN IF parent_id = 0
        THEN /\ run' = [run EXCEPT ![s] = Idle]
             /\ last' = Did("get_depth", s, <<depth>>, TRUE)
        ELSE IF found = NoStep
        THEN /\ run' = [run EXCEPT ![s] = Idle]
             /\ last' = Did("get_depth", s, <<DepthPlusOne(depth)>>, TRUE)
        ELSE /\ run' = [run EXCEPT ![s] =
                  [op |-> "get_depth",
                   arg |-> <<all_steps, found, DepthPlusOne(depth),
                             NextIteration(run[s].arg[4])>>]]
             /\ last' = last
  /\ UNCHANGED <<clock, users, query_logs, query_history, history_seq,
                 session_state, ui, window_success, fav_trail, rev>>
(* ----------------------------------------------------------------------- *)
(* Specifications.                                                         *)
(* ----------------------------------------------------------------------- *)

\* login, register and logout, by every session
NextAuth ==
  \/ \E s \in Sessions, e \in Emails, p \in Passwords : login_form(s, e, p)
  \/ \E s \in Sessions, e \in Emails, n \in Names, p \in Passwords :
       register_form(s, e, n, p)
  \/ \E s \in Sessions, salt \in Salts : register_insert(s, salt)
  \/ \E s \in Sessions : Logout(s)

SpecAuth == Init /\ [][NextAuth]_vars

\* the logins, pages and analyses used where the quota is exercised
QuotaLogins == { <<"ann@sq", "pw1">> }

QuotaPages == {"Home", "Optimizer"}

QuotaFaults == {NoFault, [step |-> "api", msg |-> "Connection error."]}

\* one session over several reset windows
NextQuota ==
  \/ \E c \in QuotaLogins : login_form(1, c[1], c[2])
  \/ Logout(1)
  \/ \E page \in QuotaPages : Navigate(1, page)
  \/ \E d \in TickSteps : Tick(d)
  \/ \E f \in QuotaFaults : analyze_query(1, <<"x">>, "Explain", f, MaxQuotaLogs)

SpecQuota == Init /\ [][NextQuota]_vars

\* the SQL texts and tasks of the analyses
AnalysisTexts == { <<"x">>, <<" ", "a", "b">>, <<" ">> }

AnalysisTasks == {"Explain", "Test"}

\* analyses of every kind by one session
NextAnalysis ==
  \/ login_form(1, "ann@sq", "pw1")
  \/ Navigate(1, "Optimizer")
  \/ \E q \in AnalysisTexts, t \in AnalysisTasks, f \in Faults :
       analyze_query(1, q, t, f, MaxLogs)

SpecAnalysis == Init /\ [][NextAnalysis]_vars

\* the logins used where the history is exercised
HistoryLogins == { <<1, "ann@sq", "pw1">>, <<2, "bob@sq", "pw2">> }

HistoryPages == {"Optimizer", "History"}

\* the history pages of two users, with toggle_favorite calls that do not
\* interleave on a row
NextHistory ==
  \/ \E c \in HistoryLogins : login_form(c[1], c[2], c[3])
  \/ \E s \in Sessions, page \in HistoryPages : Navigate(s, page)
  \/ \E s \in Sessions : analyze_query(s, <<"x">>, "Explain", NoFault, MaxHistory)
  \/ \E s \in Sessions, id \in 1..history_seq :
       NoToggleInFlight(id) /\ toggle_favorite_read(s, id)
  \/ \E s \in Sessions : toggle_favorite_write(s)
  \/ \E s \in Sessions, id \in 1..history_seq : delete_request(s, id)

SpecHistory == Init /\ [][NextHistory]_vars

\* format_sql applied to every typed text, and to its own output
NextFormat == format_click(1)

SpecFormat == InitFormat /\ [][NextFormat]_vars


\* the SQL texts of the prompts, with and without braces
PromptTexts ==
  { <<"x">>, <<"{", "x", "}">>, <<"{", "{", "x", "}", "}">>, <<"}", "{">>, <<" ">> }

\* an analysis that sends its prompt, and one that fails before it does
PromptFaults == { f \in Faults : f.step \in {"none", "estimate_tokens"} }

\* every analysis type with every text, on the Optimizer page and by render_ui
NextPrompt ==
  \/ login_form(1, "ann@sq", "pw1")
  \/ Navigate(1, "Optimizer")
  \/ \E q \in PromptTexts, t \in Tasks, f \in PromptFaults :
       analyze_query(1, q, t, f, MaxPrompts)
  \/ \E q \in PromptTexts, t \in Tasks, f \in PromptFaults :
       run_query_analysis(1, q, t, f, MaxPrompts)

SpecPrompt == Init /\ [][NextPrompt]_vars

\* an admin between the dashboard and the Optimizer page, while time passes
NextAnalytics ==
  \/ login_form(1, "bob@sq", "pw2")
  \/ \E page \in {"Optimizer", "Analytics"} : Navigate(1, page)
  \/ \E f \in QuotaFaults : analyze_query(1, <<"x">>, "Explain", f, MaxLogs)
  \/ \E manual_refresh \in BOOLEAN : analytics_page(1, manual_refresh)
  \/ \E d \in SecondSteps : TickSeconds(d)

SpecAnalytics == Init /\ [][NextAnalytics]_vars

\* the logins used where users are managed: the admin and a regular user
StoreLogins == { <<1, "bob@sq", "pw2">>, <<2, "ann@sq", "pw1">> }

StorePages == {"Optimizer", "History"}

\* the new passwords of the reset tool
ResetPasswords == {"pw3", BlankPassword}

\* analyses and history edits of a user while an admin grants, resets and
\* deletes
NextStore ==
  \/ \E c \in StoreLogins : login_form(c[1], c[2], c[3])
  \/ Navigate(1, "Users")
  \/ \E page \in StorePages : Navigate(2, page)
  \/ \E f \in QuotaFaults : analyze_query(2, <<"x">>, "Explain", f, MaxStoreLogs)
  \/ \E id \in 1..history_seq : NoToggleInFlight(id) /\ toggle_favorite_read(2, id)
  \/ toggle_favorite_write(2)
  \/ \E id \in 1..history_seq : delete_request(2, id)
  \/ \E e \in Emails : grant_admin_click(1, e)
  \/ \E e \in Emails, p \in ResetPasswords, salt \in Salts :
       reset_password_click(1, e, p, salt)
  \/ \E e \in Emails : delete_user_click(1, e)

SpecStore == Init /\ [][NextStore]_vars

\* the people who register while the admin manages the users
NewEmails == {"ann@sq", "cy@sq"}

\* registrations by one session while the admin of the other grants, resets
\* and deletes
NextUsers ==
  \/ login_form(1, "bob@sq", "pw2")
  \/ Navigate(1, "Users")
  \/ \E e \in NewEmails, n \in Names, p \in Passwords : register_form(2, e, n, p)
  \/ \E salt \in Salts : register_insert(2, salt)
  \/ \E e \in NewEmails, p \in Passwords : login_form(2, e, p)
  \/ Logout(2)
  \/ \E e \in Emails : grant_admin_click(1, e)
  \/ \E e \in Emails, p \in ResetPasswords, salt \in Salts :
       reset_password_click(1, e, p, salt)
  \/ \E e \in Emails : delete_user_click(1, e)

SpecUsers == Init /\ [][NextUsers]_vars

\* format_sql applied to the texts with string literals
NextQuoted == format_click(1)

SpecQuoted == InitQuoted /\ [][NextQuoted]_vars

\* the same user in two browser sessions
RaceLogins == { <<1, "ann@sq", "pw1">>, <<2, "ann@sq", "pw1">> }

\* the history page of one user in two sessions: toggle_favorite calls
\* interleave freely
NextRace ==
  \/ \E c \in RaceLogins : login_form(c[1], c[2], c[3])
  \/ \E s \in Sessions, page \in HistoryPages : Navigate(s, page)
  \/ \E s \in Sessions : analyze_query(s, <<"x">>, "Explain", NoFault, MaxHistory)
  \/ \E s \in Sessions, id \in 1..history_seq : toggle_favorite_read(s, id)
  \/ \E s \in Sessions : toggle_favorite_write(s)
  \/ \E s \in Sessions, id \in 1..history_seq : delete_request(s, id)

SpecRace == Init /\ [][NextRace]_vars

\* the people who log in to one browser session, one after the other
SessionLogins == { <<"ann@sq", "pw1">>, <<"bob@sq", "pw2">>, <<"cy@sq", "pw1">> }

\* one browser session that changes hands while time passes
NextSession ==
  \/ \E c \in SessionLogins : login_form(1, c[1], c[2])
  \/ register_form(1, "cy@sq", "New", "pw1")
  \/ register_insert(1, 1)
  \/ Logout(1)
  \/ Navigate(1, "Optimizer")
  \/ \E d \in TickSteps : Tick(d)
  \/ analyze_query(1, <<"x">>, "Explain", NoFault, MaxLogs)

SpecSession == Init /\ [][NextSession]_vars

\* the faults of an analysis attempt, one per step that can raise
AttemptFaults == QuotaFaults \cup StoreFaults \cup { f \in Faults : f.step \in {"estimate_tokens", "display"} }

\* analysis attempts in which any one step raises
NextAttempt ==
  \/ login_form(1, "ann@sq", "pw1")
  \/ Navigate(1, "Optimizer")
  \/ \E q \in AnalysisTexts, f \in AttemptFaults :
       analyze_query(1, q, "Explain", f, MaxLogs)

SpecAttempt == Init /\ [][NextAttempt]_vars

\* the analyses of the account that is deleted later: the seeded row of Ann
FirstAccount == \E r \in users : r.email = "ann@sq" /\ r.name = "Ann"

\* an account is used, deleted, and registered again with the same email
NextRejoin ==
  \/ login_form(1, "bob@sq", "pw2")
  \/ Navigate(1, "Users")
  \/ \E e \in Emails : delete_user_click(1, e)
  \/ Logout(1)
  \/ register_form(1, "ann@sq", "New", "pw2")
  \/ \E salt \in Salts : register_insert(1, salt)
  \/ login_form(1, "ann@sq", "pw2")
  \/ Navigate(1, "History")
  \/ history_page(1)
  \/ login_form(2, "ann@sq", "pw1")
  \/ Navigate(2, "Optimizer")
  \/ \E f \in QuotaFaults :
       FirstAccount /\ analyze_query(2, <<"x">>, "Explain", f, MaxStoreLogs)

SpecRejoin == Init /\ [][NextRejoin]_vars

\* one non-admin session on every page that calls the completion API,
\* within one reset window; the analyses of the Optimizer are failing ones
\* (SpecQuota has the others)
NextViews ==
  \/ login_form(1, "ann@sq", "pw1")
  \/ Navigate(1, "Optimizer")
  \/ \E f \in QuotaFaults \ {NoFault} :
       analyze_query(1, <<"x">>, "Explain", f, MaxViewLogs)
  \/ \E f \in QuotaFaults : compare_queries(1, f, MaxViewLogs)
  \/ \E f \in QuotaFaults : generate_sql_from_nl(1, f, MaxViewLogs)
  \/ generate_execution_plan(1, NoFault, MaxViewLogs)

SpecViews == Init /\ [][NextViews]_vars

\* one non-admin session on the Comparison page, with its two buttons
NextComparison ==
  \/ login_form(1, "ann@sq", "pw1")
  \/ \E f \in QuotaFaults : compare_queries(1, f, MaxViewLogs)
  \/ \E f \in QuotaFaults : generate_optimized_query(1, f)

SpecComparison == Init /\ [][NextComparison]_vars

\* the logins of the two admins that remove users
RemoveLogins == { <<1, "bob@sq", "pw2">>, <<2, "ann@sq", "pw1">> }

\* two admin sessions on the Users page whose Remove User runs interleave
\* at the statements on the users table
NextRemove ==
  \/ \E c \in RemoveLogins : login_form(c[1], c[2], c[3])
  \/ \E s \in Sessions : Navigate(s, "Users")
  \/ grant_admin_click(1, "ann@sq")
  \/ register_form(2, "cy@sq", "New", "pw1")
  \/ register_insert(2, 1)
  \/ \E s \in Sessions : Logout(s)
  \/ \E s \in Sessions, e \in Emails : delete_user_read(s, e)
  \/ \E s \in Sessions : delete_user_write(s)

SpecRemove == Init /\ [][NextRemove]_vars

\* the logins where the aggregates are read while rows are appended
RateLogins == { <<1, "bob@sq", "pw2">>, <<2, "ann@sq", "pw1">> }

\* an admin refreshing the Analytics page while another session analyses:
\* the statements of get_analytics_data interleave with the appends
NextRates ==
  \/ \E c \in RateLogins : login_form(c[1], c[2], c[3])
  \/ Navigate(1, "Analytics")
  \/ Navigate(2, "Optimizer")
  \/ \E f \in QuotaFaults : analyze_query(2, <<"x">>, "Explain", f, MaxQuotaLogs)
  \/ analytics_count_total(1)
  \/ analytics_count_successful(1)

SpecRates == Init /\ [][NextRates]_vars

\* the tree view of the plans, step by step of the loop of get_depth
NextDepth ==
  \/ login_form(1, "ann@sq", "pw1")
  \/ \E plan \in Plans : \E step \in 1..Len(plan) : display_tree_view(1, plan, step)
  \/ get_depth(1)

SpecDepth == Init /\ [][NextDepth]_vars

\* the same, with a script run that goes on as long as it can
SpecDepthFair == SpecDepth /\ WF_vars(get_depth(1))

\* the Analytics page of an admin with Auto-refresh on, while time passes
NextAuto ==
  \/ login_form(1, "bob@sq", "pw2")
  \/ Navigate(1, "Analytics")
  \/ \E manual_refresh \in BOOLEAN : analytics_page(1, manual_refresh)
  \/ \E refresh_rate \in RefreshRates : analytics_auto_refresh(1, refresh_rate)
  \/ analytics_rerun(1)
  \/ \E d \in SecondSteps : TickSeconds(d)

SpecAuto == Init /\ [][NextAuto]_vars

\* the History pages of two users who both analyse
NextOwnRows ==
  \/ \E c \in HistoryLogins : login_form(c[1], c[2], c[3])
  \/ \E s \in Sessions, page \in HistoryPages : Navigate(s, page)
  \/ \E s \in Sessions : analyze_query(s, <<"x">>, "Explain", NoFault, MaxLogs)
  \/ \E s \in Sessions : history_page(s)

SpecOwnRows == Init /\ [][NextOwnRows]_vars
(* ----------------------------------------------------------------------- *)
(* Properties.                                                             *)
(* ----------------------------------------------------------------------- *)

\* the password is the one the stored hash was made from
MatchesHash(stored_password, password) ==
  stored_password = hashpw(password, stored_password.salt)

\* C1: a login with the email and password of a register that has just
\* succeeded succeeds too: the session is logged in under that email, and its
\* is_admin is (email in the admin allowlist) OR (the is_admin of the row).
C1_RegisterThenLogin ==
  [][ (/\ last.op = "register" /\ last.ok
       /\ last'.op = "login"
       /\ last'.arg = <<last.arg[1], last.arg[3]>>)
      => LET s == last'.s
             email == last.arg[1]
         IN /\ last'.ok
            /\ session_state'[s].logged_in
            /\ session_state'[s].user_email = email
            /\ session_state'[s].is_admin =
                 ((email \in ADMIN_EMAILS) \/ get_user(users', email).is_admin) ]_vars

\* the step is a login attempt of session s for a registered email with a
\* password the stored hash was not made from
WrongPasswordLogin(s) ==
  /\ last'.op = "login"
  /\ last'.s = s
  /\ get_user(users, last'.arg[1]) # NoUser
  /\ ~MatchesHash(get_user(users, last'.arg[1]).password, last'.arg[2])

\* C2: a login attempt with a password that does not match the stored hash
\* fails, shows the bad-password error and leaves the session state of every
\* session as it was.
C2_WrongPasswordKeepsSession ==
  [][ \A s \in Sessions :
        WrongPasswordLogin(s)
        => /\ ~last'.ok
           /\ ui'[s].message = MsgBadPassword
           /\ session_state' = session_state ]_vars

\* a wrong password was tried in a session whose state is not the initial one
C2_Witness ==
  /\ last.op = "login"
  /\ ~last.ok
  /\ get_user(users, last.arg[1]) # NoUser
  /\ ui[last.s].message = MsgBadPassword
  /\ \E t \in Sessions : session_state[t].logged_in

\* no email has two rows
UniqueEmails ==
  \A e \in Emails : Cardinality({ r \in users : r.email = e }) <= 1

\* the step ends a register for an email that has a row
RegisterOfExisting ==
  /\ last'.op = "register"
  /\ get_user(users, last'.arg[1]) # NoUser

\* C3: users holds at most one row per email, and a register for an email
\* that has a row (found by the existence check, or inserted by another
\* session after the check) fails and leaves the table as it was.
C3_OneRowPerEmail ==
  /\ []UniqueEmails
  /\ [][ RegisterOfExisting => (~last'.ok /\ users' = users) ]_vars

\* a register lost the race: its check passed and its insert was refused
C3_Witness ==
  /\ last.op = "register"
  /\ ~last.ok
  /\ ui[last.s].message \in {"Error creating user", "sqlite3.IntegrityError"}
  /\ get_user(users, last.arg[1]) # NoUser

\* the step is a script run of session s that leaves it logged in as a
\* non-admin user: a page load of a non-admin session
PageLoad(s) ==
  /\ last'.s = s
  /\ last'.op \in {"login", "navigate", "analyze", "format", "toggle_read",
                   "toggle", "delete"}
  /\ session_state'[s].logged_in
  /\ ~session_state'[s].is_admin

\* the analysis of the step ran: it passed the blank and quota checks
AnalysisRan == last'.op = "analyze" /\ last'.ok

\* the Analyze button of the page the step rendered, if on the Optimizer page
ButtonIs(s, state) ==
  ui'[s].analyze_button =
    IF session_state'[s].current_page = "Optimizer" THEN state ELSE "absent"

\* C4: once 5 analyses of a non-admin session succeeded in one reset window,
\* every page load before the reset timestamp renders Analyze disabled and
\* rejects an analyze request; a page load at or after the reset timestamp
\* shows the counter at 0 and renders Analyze enabled.
C4_QuotaWindow ==
  [][ \A s \in Sessions :
        PageLoad(s)
        => /\ (/\ window_success[s] >= DailyLimit
               /\ clock < session_state[s].query_reset_time)
              => /\ ButtonIs(s, "disabled")
                 /\ ~AnalysisRan
                 /\ last'.op = "analyze" => query_logs' = query_logs
           /\ clock >= session_state[s].query_reset_time
              => /\ ui'[s].usage = 0
                 /\ ButtonIs(s, "enabled") ]_vars

\* the fifth success is behind a non-admin session that sees Analyze disabled
C4_Witness ==
  \E s \in Sessions :
    /\ window_success[s] >= DailyLimit
    /\ last.op = "navigate" /\ last.s = s
    /\ ui[s].analyze_button = "disabled"

\* the number of analyses the step ran (0 or 1)
Ran == IF AnalysisRan THEN 1 ELSE 0

\* C5 as claimed: a page load of a non-admin session at or after
\* query_reset_time sets the counter to 0 and moves query_reset_time to the
\* old reset timestamp + 24 hours; an earlier one leaves both unchanged.
C5_ResetFromOldTimestamp ==
  [][ \A s \in Sessions :
        PageLoad(s)
        => IF clock >= session_state[s].query_reset_time
           THEN /\ ui'[s].usage = 0
                /\ session_state'[s].query_count = Ran
                /\ session_state'[s].query_reset_time =
                     session_state[s].query_reset_time + ResetWindow
           ELSE /\ ui'[s].usage = session_state[s].query_count
                /\ session_state'[s].query_count = session_state[s].query_count + Ran
                /\ session_state'[s].query_reset_time =
                     session_state[s].query_reset_time ]_vars

\* C5 as amended: a page load of a non-admin session at or after
\* query_reset_time sets the counter to 0 and query_reset_time to the time of
\* the page load + 24 hours; an earlier one leaves both unchanged.
C5_ResetFromNow ==
  [][ \A s \in Sessions :
        PageLoad(s)
        => IF clock >= session_state[s].query_reset_time
           THEN /\ ui'[s].usage = 0
                /\ session_state'[s].query_count = Ran
                /\ session_state'[s].query_reset_time = clock + ResetWindow
           ELSE /\ ui'[s].usage = session_state[s].query_count
                /\ session_state'[s].query_count = session_state[s].query_count + Ran
                /\ session_state'[s].query_reset_time =
                     session_state[s].query_reset_time ]_vars

\* a page load later than the reset timestamp has reset a used counter: the
\* new reset timestamp is later than the old one + 24 hours
C5_Witness ==
  \E s \in Sessions :
    /\ last.op = "navigate" /\ last.s = s
    /\ ~session_state[s].is_admin
    /\ session_state[s].query_count = 0
    /\ Len(query_logs) > 0
    /\ session_state[s].query_reset_time = clock + ResetWindow
    /\ session_state[s].query_reset_time > 2 * ResetWindow

\* C6: when the completion API raises, one row is appended to query_logs,
\* with success = false, the length of the submitted SQL and str(e), and
\* query_history gets no row.
C6_ApiFailureLogged ==
  [][ (AnalysisRan /\ last'.arg[3].step = "api")
      => LET row == query_logs'[Len(query_logs')]
         IN /\ Len(query_logs') = Len(query_logs) + 1
            /\ SubSeq(query_logs', 1, Len(query_logs)) = query_logs
            /\ row.success = FALSE
            /\ row.query_length = Len(last'.arg[1])
            /\ row.error_message = last'.arg[3].msg
            /\ row.user_email = session_state'[last'.s].user_email
            /\ query_history' = query_history
            /\ history_seq' = history_seq ]_vars

\* an analysis of a text with blanks around it failed in the API call
C6_Witness ==
  /\ last.op = "analyze" /\ last.ok
  /\ last.arg[3].step = "api"
  /\ last.arg[1] = <<" ", "a", "b">>
  /\ query_logs[Len(query_logs)].query_length = 3

\* the text of the box of session 1, where format_sql is exercised
Box == session_state[1].current_sql_query

\* C7: format_sql is idempotent: formatting the output of format_sql again
\* returns it unchanged, also when the words of a multi-word keyword are
\* separated by several blanks or a tab.
C7_FormatIdempotent ==
  [][ (last.op = "format" /\ last'.op = "format")
      => session_state'[1].current_sql_query = Box ]_vars

\* str.upper()
Upper(w) == [i \in 1..Len(w) |-> ToUpper(w[i])]

WordChars == LowerSet \cup UpperSet \cup Digits \cup {"_"}

\* the maximal runs of non-whitespace characters of s, from position i on
RECURSIVE Words(_, _)
Words(s, i) ==
  IF i > Len(s) THEN <<>>
  ELSE IF IsSpace(s[i]) THEN Words(s, i + 1)
  ELSE LET e == RunEnd(s, i, {c \in {s[k] : k \in 1..Len(s)} : ~IsSpace(c)})
       IN <<SubSeq(s, i, e)>> \o Words(s, e + 1)

\* the tokens of s from position i on: the maximal runs of word characters,
\* and every other non-whitespace character by itself
RECURSIVE Tokens(_, _)
Tokens(s, i) ==
  IF i > Len(s) THEN <<>>
  ELSE IF IsSpace(s[i]) THEN Tokens(s, i + 1)
  ELSE IF s[i] \in WordChars
       THEN LET e == RunEnd(s, i, WordChars)
            IN <<SubSeq(s, i, e)>> \o Tokens(s, e + 1)
       ELSE << <<s[i]>> >> \o Tokens(s, i + 1)

\* the keywords of a list, as a set
SetOf(kws) == { kws[k] : k \in 1..Len(kws) }

\* the words the keywords of a set are made of
WordsOf(kwset) ==
  UNION { { Words(kw, 1)[j] : j \in 1..Len(Words(kw, 1)) } : kw \in kwset }

KeywordSet_utils == SetOf(keywords_utils)

KeywordSet_main == SetOf(keywords_main)

KeywordWords_utils == WordsOf(KeywordSet_utils)

KeywordWords_main == WordsOf(KeywordSet_main)

\* the listed keywords of the revision, as a set
KeywordSet == IF rev = "modular" THEN KeywordSet_utils ELSE KeywordSet_main

\* the words the listed keywords of the revision are made of
KeywordWords == IF rev = "modular" THEN KeywordWords_utils ELSE KeywordWords_main

\* the words of ws that are not a listed keyword
NonKeywords(ws) == SelectSeq(ws, LAMBDA w : Upper(w) \notin KeywordSet)

\* the words of ws that are a listed keyword are in upper case
KeywordsUpper(ws) ==
  \A k \in 1..Len(ws) : Upper(ws[k]) \in KeywordSet => ws[k] = Upper(ws[k])

\* the step formatted a non-blank text
Formatted == last'.op = "format" /\ last'.ok

\* C8 as claimed: the whitespace-delimited words of the input that are not a
\* listed keyword appear in the output in the same order with the same
\* characters and casing, and every keyword word of the output is upper case.
C8_WordsPreserved ==
  [][ Formatted
      => LET input == Words(last'.arg[1], 1)
             output == Words(session_state'[1].current_sql_query, 1)
         IN /\ NonKeywords(output) = NonKeywords(input)
            /\ KeywordsUpper(output) ]_vars

\* C8 as amended: the tokens (maximal runs of letters, digits and _, and
\* single punctuation characters) of the output are those of the input in
\* the same order; a token differs from the input only by being upper-cased,
\* and only when it is a word of a listed keyword; every token of the output
\* that is a listed keyword is upper case.
C8_TokensPreserved ==
  [][ Formatted
      => LET input == Tokens(last'.arg[1], 1)
             output == Tokens(session_state'[1].current_sql_query, 1)
         IN /\ Len(output) = Len(input)
            /\ \A k \in 1..Len(input) :
                 \/ output[k] = input[k]
                 \/ output[k] = Upper(input[k]) /\ output[k] \in KeywordWords
            /\ KeywordsUpper(output) ]_vars

\* a text with a keyword in mixed case, an identifier and a comma with no
\* space after it was formatted
C8_Witness ==
  /\ last.op = "format" /\ last.ok
  /\ last.arg[1] = <<"A","s", ",", "I","d">>
  /\ Box = <<"A","S", ",", " ", "I","d">>

\* the row of query_history with the id, where there is one
HistoryRows(query_id) == { r \in query_history : r.id = query_id }

\* C9: toggle_favorite calls that do not interleave on a row each leave
\* is_favorite the negation of what it was, so that after two of them in a
\* row it is back at its original value.
C9_ToggleInvolution ==
  \A id \in HistoryIds :
    LET trail == fav_trail[id]
    IN /\ \A k \in 1..(Len(trail) - 1) : trail[k + 1] = ~trail[k]
       /\ Len(trail) = 3 => trail[3] = trail[1]
       /\ \A r \in HistoryRows(id) : r.is_favorite = trail[Len(trail)]

\* a row of the table was toggled twice
C9_Witness ==
  \E id \in HistoryIds :
    /\ Len(fav_trail[id]) = 3
    /\ HistoryRows(id) # {}
    /\ last.op = "toggle"

\* the step is a delete request of a session for a row of another user
DeleteOfForeignRow ==
  /\ last'.op = "delete"
  /\ \E r \in query_history :
       r.id = last'.arg[1] /\ r.user_email # session_state'[last'.s].user_email

\* C10: a delete request for a row whose user_email is not the caller's
\* deletes nothing: query_history is unchanged.
C10_DeleteScopedByOwner ==
  [][ DeleteOfForeignRow => query_history' = query_history ]_vars

\* a user asked for the deletion of another user's row, which is still there
C10_Witness ==
  /\ last.op = "delete"
  /\ ~last.ok
  /\ \E r \in query_history :
       r.id = last.arg[1] /\ r.user_email # session_state[last.s].user_email


(* ----------------------------------------------------------------------- *)
(* Properties of the prompt, the analytics cache and the login outcomes.   *)
(* ----------------------------------------------------------------------- *)

\* the templates of the handler that ran
TemplateOf(op, task) ==
  IF op = "analyze" /\ rev = "monolith" THEN prompt_templates(task)
  ELSE PROMPT_TEMPLATES(task)

\* the places of the field sql_query in a template
FieldsOf(template) ==
  { k \in 1..(Len(template) - 2) :
      template[k] = "{" /\ template[k + 1] = "sql_query" /\ template[k + 2] = "}" }

\* the step sent a prompt to the completion API
PromptSent ==
  /\ last'.op \in {"analyze", "run_analysis"}
  /\ last'.ok
  /\ last'.arg[3].step # "estimate_tokens"

\* C11: the prompt sent to the completion API is the fixed template of the
\* task with the SQL text in the place of its one field, character for
\* character, also when the SQL text holds braces.
C11_PromptIsTemplateWithQuery ==
  [][ PromptSent
      => LET template == TemplateOf(last'.op, last'.arg[2])
             sql_query == last'.arg[1]
             prompt == last'.arg[4]
         IN \E k \in FieldsOf(template) :
              /\ FieldsOf(template) = {k}
              /\ prompt = SubSeq(template, 1, k - 1) \o sql_query
                            \o SubSeq(template, k + 3, Len(template)) ]_vars

\* a prompt with a text in braces was sent by str.format
C11_Witness ==
  /\ last.op = "run_analysis"
  /\ last.ok
  /\ last.arg[1] = <<"{", "x", "}">>
  /\ last.arg[2] = "Test"
  /\ last.arg[4] = <<"Create a test suite for this query. SQL Query to Test:", "{", "x", "}">>

\* the step is a script run of the Analytics page
AnalyticsLoad == last'.op = "analytics"

\* C12: get_analytics_data_cached computes the aggregates anew, stores them
\* with last_analytics_update = now and returns is_fresh = TRUE exactly when
\* force_refresh is set, there is no cache or the cache is more than 30
\* seconds old; otherwise it returns the cache as it is and leaves it alone,
\* and what it then returns was computed at most 30 seconds earlier.
C12_CacheWindow ==
  [][ AnalyticsLoad
      => LET s == last'.s
             before == session_state[s]
             after == session_state'[s]
             analytics == last'.arg[2]
             is_fresh == last'.arg[3]
             recompute == \/ last'.arg[1]
                          \/ before.last_analytics_update = NoUpdate
                          \/ clock - before.last_analytics_update > CacheSeconds
         IN IF recompute
            THEN /\ is_fresh
                 /\ analytics = get_analytics_data(query_logs, users, clock)
                 /\ after.cached_analytics = analytics
                 /\ after.last_analytics_update = clock
            ELSE /\ ~is_fresh
                 /\ analytics = before.cached_analytics
                 /\ after = before
                 /\ clock - analytics.computed_at <= CacheSeconds ]_vars

\* the dashboard served aggregates that are 30 seconds old and no longer
\* those of the store
C12_Witness ==
  /\ last.op = "analytics"
  /\ ~last.arg[3]
  /\ clock - last.arg[2].computed_at = CacheSeconds
  /\ last.arg[2].total_queries < Len(query_logs)

\* the error messages that tell the user that the email has no account, and
\* those that tell that the password is wrong
NotFoundMessages == {"User not found. Please check your email or register."}

InvalidPasswordMessages == {"Invalid password"}

\* C13: a login for an email without a users row fails with a "not found"
\* outcome, a login for a registered email with a wrong password fails with
\* an "invalid password" outcome, and the two outcomes differ.
C13_DistinctLoginFailures ==
  [][ (last'.op = "login" /\ ~last'.ok)
      => LET message == ui'[last'.s].message
         IN IF get_user(users, last'.arg[1]) = NoUser
            THEN message \in NotFoundMessages \ InvalidPasswordMessages
            ELSE message \in InvalidPasswordMessages \ NotFoundMessages ]_vars
(* ----------------------------------------------------------------------- *)
(* The tables under user management.                                       *)
(* ----------------------------------------------------------------------- *)

\* C14: query_logs is append-only.  Whatever the operation (analysis,
\* history edit, admin grant, password reset, delete_user), every row the
\* table held before the step is still there after it, unchanged and at
\* the same place: the table only grows at its end.
C14_LogsAppendOnly ==
  [][/\ Len(query_logs') >= Len(query_logs)
     /\ \A k \in 1..Len(query_logs) : query_logs'[k] = query_logs[k]]_vars

\* C14 witness: a user with rows in query_logs has just been deleted, and
\* the rows are still in the table
C14_Witness ==
  /\ last.op = "delete_user"
  /\ \E k \in 1..Len(query_logs) : query_logs[k].user_email = last.arg[1]
  /\ \A r \in users : r.email # last.arg[1]

\* the rows of the table for an email
RowsOf(tbl, email) == { u \in tbl : u.email = email }

\* C20: after creation, a users row changes only by a grant (is_admin from
\* false to true), by a reset (a new password hash) or by a delete (the row
\* goes).  While the row exists its email and name stay as they are, and
\* is_admin never goes from true back to false.
C20_UsersRowChanges ==
  [][\A r \in users :
       LET after == RowsOf(users', r.email)
       IN \/ /\ after = {}
             /\ last'.op = "delete_user"
             /\ last'.arg[1] = r.email
          \/ \E u \in after :
               /\ after = {u}
               /\ u.name = r.name
               /\ r.is_admin => u.is_admin
               /\ u.is_admin # r.is_admin =>
                    last'.op = "grant" /\ last'.arg[1] = r.email
               /\ u.password # r.password =>
                    last'.op = "reset_password" /\ last'.arg[1] = r.email]_vars

\* C20 witness: the row of Ann after a grant and a reset, still with her
\* name, next to a user who has just been deleted
C20_Witness ==
  /\ last.op = "delete_user"
  /\ \E r \in users :
       /\ r.email = "ann@sq"
       /\ r.name = "Ann"
       /\ r.is_admin
       /\ r.password.digest[2] = "pw3"
(* ----------------------------------------------------------------------- *)
(* The whitespace of formatted SQL.                                        *)
(* ----------------------------------------------------------------------- *)

\* the two-character text <<a, b>> occurs in s
HasPair(s, a, b) == \E i \in 1..(Len(s) - 1) : s[i] = a /\ s[i + 1] = b

\* a comma of s is followed at once by a letter, a digit or an underscore
CommaBeforeWord(s) ==
  \E i \in 1..(Len(s) - 1) : s[i] = "," /\ IsAlnumUnderscore(s[i + 1])

\* the whitespace normal form of a formatted text
WhitespaceNormal(s) ==
  /\ \A i \in 1..Len(s) : s[i] # "\t"
  /\ ~HasPair(s, " ", " ")
  /\ ~HasPair(s, " ", "\n")
  /\ ~HasPair(s, "\n", " ")
  /\ ~HasPair(s, " ", ",")
  /\ ~HasPair(s, "(", " ")
  /\ ~HasPair(s, " ", ")")
  /\ ~CommaBeforeWord(s)
  /\ s # <<>> => ~IsSpace(s[1]) /\ ~IsSpace(s[Len(s)])

Occurrence(kw, s, i) ==
  /\ i + Len(kw) - 1 <= Len(s)
  /\ \A j \in 1..Len(kw) : ToUpper(s[i + j - 1]) = kw[j]
  /\ i > 1 => s[i - 1] \notin WordChars
  /\ i + Len(kw) <= Len(s) => s[i + Len(kw)] \notin WordChars

\* the index, among the tokens of s, of the token that starts at position i
TokenIndex(s, i) == Len(Tokens(SubSeq(s, 1, i - 1), 1)) + 1

C16_WitnessIdentifier ==
  /\ last.op = "format" /\ last.ok
  /\ last.arg[1] = <<"x", ".", "C","o","u","n","t">>
  /\ Box = <<"x", ".", "C","O","U","N","T">>
(* ----------------------------------------------------------------------- *)
(* Interleaved toggle_favorite calls.                                      *)
(* ----------------------------------------------------------------------- *)

\* the rows of a query_history table with the id
RowsWith(hist, query_id) == { r \in hist : r.id = query_id }

\* the step is the write of the toggle_favorite call of session s
WriteBy(s) == run[s].op = "toggle_write" /\ run'[s] = Idle

\* C17: toggle_favorite reads and then writes, with no lock and no check of
\* what it read.  When two calls on a row interleave so that both reads come
\* before either write (both hold the same original value), the first write
\* sets the row to the negation of that value, and the second write, whose
\* read is stale by then, sets it to the same negation again: the row ends
\* toggled once, not back at its original value.
C17_LastWriteWins ==
  [][ \A s \in Sessions :
        WriteBy(s)
        => LET query_id == run[s].arg[1]
               original == run[s].arg[2]
               before == RowsWith(query_history, query_id)
               after == RowsWith(query_history', query_id)
           IN /\ \A t \in Sessions \ {s} :
                   (run[t].op = "toggle_write" /\ run[t].arg = run[s].arg)
                   => \A r \in after : r.is_favorite = ~original
              /\ \A r \in before :
                   r.is_favorite # original
                   => /\ \A r2 \in after : r2.is_favorite = ~original
                      /\ after = before ]_vars

\* C17 witness: two calls read the same value of a row, both wrote, and the
\* row holds the negation of what it held before them
C17_Witness ==
  \E id \in HistoryIds :
    /\ last.op = "toggle"
    /\ last.ok
    /\ fav_trail[id] = <<FALSE, TRUE, TRUE>>
    /\ \E r \in RowsWith(query_history, id) : r.is_favorite
    /\ \A s \in Sessions : run[s] = Idle
(* ----------------------------------------------------------------------- *)
(* The usage counter across Logout and Login.                              *)
(* ----------------------------------------------------------------------- *)

\* the step is a Logout, or a Login that succeeded, of session s
LogoutOrLogin(s) ==
  /\ last'.s = s
  /\ last'.op = "logout" \/ (last'.op = "login" /\ last'.ok)

\* query_count and query_reset_time of a session state
Quota(ss) == <<ss.query_count, ss.query_reset_time>>

\* C18 as claimed: Logout and a subsequent Login, as the same or as another
\* user, change neither query_count nor query_reset_time of the session.
C18_LogoutLoginKeepQuota ==
  [][ \A s \in Sessions :
        LogoutOrLogin(s) => Quota(session_state'[s]) = Quota(session_state[s]) ]_vars

\* the usage tracker of the script run of the step finds the reset time
\* reached: the run of a Logout is that of the user who logs out, the rerun
\* of a Login that of the user who logged in
TrackerDue(s) ==
  /\ clock >= session_state[s].query_reset_time
  /\ IF last'.op = "logout" THEN ~session_state[s].is_admin
     ELSE ~session_state'[s].is_admin

\* C18 as amended: Logout and a subsequent Login, as the same or as another
\* user, change neither query_count nor query_reset_time of the session,
\* except that the usage tracker of their script run resets both when the
\* run is that of a non-admin user at or after query_reset_time; short of
\* that, the user who logs in inherits the count left in the session.
C18_LogoutLoginKeepQuotaUntilReset ==
  [][ \A s \in Sessions :
        LogoutOrLogin(s)
        => IF TrackerDue(s)
           THEN Quota(session_state'[s]) = <<0, clock + ResetWindow>>
           ELSE Quota(session_state'[s]) = Quota(session_state[s]) ]_vars

\* C18 witness: a user who never ran an analysis has logged in to a session
\* in which another user had run two, and sees two queries used
C18_Witness ==
  /\ last.op = "login" /\ last.ok
  /\ session_state[1].user_email = "cy@sq"
  /\ session_state[1].query_count = 2
  /\ ui[1].usage = 2
  /\ \A k \in 1..Len(query_logs) : query_logs[k].user_email = "ann@sq"
(* ----------------------------------------------------------------------- *)
(* The log rows of an analysis attempt.                                    *)
(* ----------------------------------------------------------------------- *)

\* the rows the step appended to query_logs
Appended == SubSeq(query_logs', Len(query_logs) + 1, Len(query_logs'))

\* C19: every analysis attempt that passes the blank-input and quota checks
\* appends exactly one row to query_logs, with success true or with success
\* false and never one of each, whatever step of the attempt raises (token
\* estimate, API call, logging, history save, result display).
C19_OneLogRowPerAttempt ==
  [][ (last'.op = "analyze" /\ last'.ok) => Len(Appended) = 1 ]_vars

\* an attempt whose result display raised left a success row and a failure
\* row
C19_TwoRows ==
  /\ last.op = "analyze" /\ last.ok
  /\ last.arg[3].step = "display"
  /\ Len(query_logs) = 2
  /\ query_logs[1].success /\ ~query_logs[2].success
(* ----------------------------------------------------------------------- *)
(* What delete_user leaves behind.                                         *)
(* ----------------------------------------------------------------------- *)

\* C21: delete_user(email) removes the users row and nothing else: the rows
\* of query_logs and query_history with that user_email stay as they are,
\* and the History page of an account shows every query_history row with
\* its email, so that an account registered later with the email of a
\* deleted one sees the history of the deleted account.
C21_DeleteUserKeepsRows ==
  [][ /\ last'.op = "delete_user"
         => /\ users' = { r \in users : r.email # last'.arg[1] }
            /\ query_logs' = query_logs
            /\ query_history' = query_history
      /\ last'.op = "history"
         => last'.arg[1] =
              { r \in query_history : r.user_email = session_state[last'.s].user_email }
    ]_vars

\* C21 witness: the account registered anew as ann@sq looks at its History
\* page and sees a row of the account that was deleted
C21_Witness ==
  /\ last.op = "history" /\ last.s = 1
  /\ session_state[1].user_email = "ann@sq"
  /\ \E r \in users : r.email = "ann@sq" /\ r.name = "New"
  /\ last.arg[1] # {}
  /\ \E k \in 1..Len(query_logs) : query_logs[k].user_email = "ann@sq"
(* ----------------------------------------------------------------------- *)
(* The quota across the pages that call the completion API.                *)
(* ----------------------------------------------------------------------- *)

\* C22: in every reachable state of a non-admin session query_count is
\* between 0 and 5, whatever Optimizer, Comparison, Natural Language and
\* Execution Plan actions (successful or failing) and page loads came before.
C22_CountWithinLimit ==
  \A s \in Sessions :
    ~session_state[s].is_admin => session_state[s].query_count \in 0..DailyLimit

\* C22 witness: the counter of a non-admin session stands at 5 after a call
\* of a view
C22_Witness ==
  /\ last.op \in {"compare", "nl", "plan"}
  /\ last.arg[2]
  /\ session_state[1].logged_in /\ ~session_state[1].is_admin
  /\ session_state[1].query_count = DailyLimit

\* the step is a script run of session s that called the completion API
ApiCalled(s) ==
  /\ last' # last
  /\ last'.s = s
  /\ \/ last'.op \in {"compare", "generate_optimized", "nl", "plan"} /\ last'.arg[2]
     \/ last'.op = "analyze" /\ last'.arg[4] # NoPrompt

\* C23: every script run of a non-admin session that calls the completion
\* API has first found query_count below 5 and counts the call in
\* query_count, whether or not the call succeeds (so a reset window has at
\* most 5 calls).
C23_ApiCallsCheckedAndCounted ==
  [][\A s \in Sessions :
       (ApiCalled(s) /\ ~session_state'[s].is_admin) =>
         LET before == render_sidebar(session_state[s], clock).query_count
         IN /\ before < DailyLimit
            /\ session_state'[s].query_count = before + 1]_vars

\* C24: in the Optimizer an analysis of a non-admin session that gets as far
\* as the completion API adds one to query_count, and the count stays when
\* the call fails: a failed analysis takes one unit of the window exactly as
\* a successful one does.
C24_FailedAnalysisCounts ==
  [][\A s \in Sessions :
       (/\ last' # last
        /\ last'.op = "analyze" /\ last'.s = s /\ last'.ok
        /\ ~session_state'[s].is_admin) =>
         session_state'[s].query_count =
           render_sidebar(session_state[s], clock).query_count + 1]_vars

\* C24 witness: an analysis whose API call failed has used up the last unit
C24_Witness ==
  /\ last.op = "analyze" /\ last.ok /\ last.s = 1
  /\ last.arg[3].step = "api"
  /\ ~session_state[1].is_admin
  /\ session_state[1].query_count = DailyLimit

(* ----------------------------------------------------------------------- *)
(* The identity of a session.                                              *)
(* ----------------------------------------------------------------------- *)

\* a session that is not logged in has no user and no admin flag
LoggedOutIsNobody ==
  \A s \in Sessions :
    ~session_state[s].logged_in =>
      session_state[s].user_email = None /\ ~session_state[s].is_admin

\* a session is logged in only by a login whose email and password match a
\* row of users at that moment, and keeps that email while it is logged in
LoggedInByMatchingRow ==
  \A s \in Sessions :
    session_state'[s].logged_in =>
      IF session_state[s].logged_in
      THEN session_state'[s].user_email = session_state[s].user_email
      ELSE /\ last'.op = "login" /\ last'.s = s
           /\ session_state'[s].user_email = last'.arg[1]
           /\ \E r \in users :
                /\ r.email = session_state'[s].user_email
                /\ verify_password(r.password, last'.arg[2])

\* C25: in every reachable session state, logged_in = false implies that
\* user_email is None and is_admin is false, and logged_in = true implies
\* that user_email is the email of a users row that existed, with a matching
\* password, at the moment of login.
C25_SessionIdentity ==
  [](LoggedOutIsNobody) /\ [][LoggedInByMatchingRow]_vars

\* C25 witness: session 2 has logged out while session 1 is logged in with
\* an account registered in this run
C25_Witness ==
  /\ last.op = "logout" /\ last.s = 2
  /\ ui[2] = RenderedLogin("")
  /\ ~session_state[2].logged_in
  /\ session_state[1].logged_in
  /\ session_state[1].user_email \notin { r.email : r \in SeedUsers }

(* ----------------------------------------------------------------------- *)
(* Remove User by several admins.                                          *)
(* ----------------------------------------------------------------------- *)

\* a Remove User of a session never takes the row of its own user
NeverDeletesOwnRow ==
  (last' # last /\ last'.op = "delete_user") =>
    last'.arg[1] # session_state[last'.s].user_email

\* C26: after any interleaving of Remove User actions by any number of admin
\* sessions the users table still has at least one row, and no session ever
\* deletes the row of its own logged-in user.
C26_RemoveUserKeepsARow ==
  [](users # {}) /\ [][NeverDeletesOwnRow]_vars

(* ----------------------------------------------------------------------- *)
(* The success rate while rows are appended.                               *)
(* ----------------------------------------------------------------------- *)

\* C27: the success_rate computed by get_analytics_data is always between 0
\* and 100 inclusive, and is 0 when there are no query_logs rows, even when
\* other sessions append rows between the separate count queries.
C27_SuccessRateInRange ==
  last.op = "analytics" =>
    LET rate == last.arg[2].success_rate
    IN /\ 0 <= rate[1]
       /\ rate[1] <= 100 * rate[2]
       /\ (last.arg[2].total_queries = 0 => rate[1] = 0)

(* ----------------------------------------------------------------------- *)
(* Termination of get_depth.                                               *)
(* ----------------------------------------------------------------------- *)

\* C28: get_depth(step, all_steps) terminates for every list of steps,
\* including lists in which parent_id references form a cycle or a step
\* names itself as parent.
C28_GetDepthTerminates ==
  (run[1].op = "get_depth") ~> (run[1].op # "get_depth")

(* ----------------------------------------------------------------------- *)
(* Auto-refresh of the Analytics page.                                     *)
(* ----------------------------------------------------------------------- *)

\* C29: with Auto-refresh on, a rerun that the analytics page triggers
\* because the cache age is at least the selected refresh rate recomputes
\* the analytics (is_fresh = true), so that the page never triggers
\* successive reruns that each return the same cached data.
C29_RerunRecomputes ==
  [][last'.op = "analytics_rerun" => last'.arg[2]]_vars

(* ----------------------------------------------------------------------- *)
(* What the History page shows.                                            *)
(* ----------------------------------------------------------------------- *)

\* C30: the History page of a logged-in session displays, and offers
\* toggle/delete/rename actions on, only query_history rows whose user_email
\* equals the session's user_email; no field of another user's row is shown.
C30_HistoryShowsOwnRows ==
  last.op = "history" =>
    LET own == session_state[last.s].user_email
    IN /\ \A r \in last.arg[1] \cup last.arg[2] : r.user_email = own
       /\ \A e \in last.arg[3] : e.user_email = own
====
